---------------------------- MODULE Spec2Model ----------------------------
(***************************************************************************)
(* ECU File Organizer: the metadata extraction engine of bin_reader.py     *)
(* (read_bin_metadata and its chain of brand extractors), the software     *)
(* version fallback locator, and the filename parser of parser.py          *)
(* (FileParser.parse_filename and FileParser.parse_bin_file), and the      *)
(* desktop program around them: the folder monitor thread of monitor.py,   *)
(* the window operations that start and stop it and the list of recent     *)
(* files of main_window.py, and save_file of form_dialog.py.               *)
(*                                                                         *)
(* A firmware image is a sequence of ASCII tokens, each followed by NUL    *)
(* padding.  No pattern of constants.py matches a NUL byte, so every regex *)
(* match lies inside one token; the pattern catalogue below lists, for     *)
(* every pattern, its matches (re.finditer) in every token of the          *)
(* vocabulary.  Byte strings are TLA+ strings; a byte in 0x80..0xFF is     *)
(* written "~".                                                            *)
(***************************************************************************)
EXTENDS Integers, Sequences, FiniteSets, TLC

\* ------------------------------------------------------------------ bounds
MaxTokens == 2
MaxParseTokens == 2
MaxRuns == 2
MaxAnchorItems == 2
MaxOemTokens == 3
MaxNameParts == 4
MaxAutotunerParts == 3
MaxSize == 1
MaxOrphaned == 1
MaxSaves == 3
MaxAdds == 2

\* ------------------------------------------------- Python string operations
Min(a, b) == IF a < b THEN a ELSE b
Max(a, b) == IF a > b THEN a ELSE b

Digits == {"0", "1", "2", "3", "4", "5", "6", "7", "8", "9"}
Letters ==
  {"A", "B", "C", "D", "E", "F", "G", "H", "I", "J", "K", "L", "M",
   "N", "O", "P", "Q", "R", "S", "T", "U", "V", "W", "X", "Y", "Z",
   "a", "b", "c", "d", "e", "f", "g", "h", "i", "j", "k", "l", "m",
   "n", "o", "p", "q", "r", "s", "t", "u", "v", "w", "x", "y", "z"}
AlNum == Digits \cup Letters

\* s[i] for a 1-based i
Ch(s, i) == SubSeq(s, i, i)

\* s[a:b] with Python's 0-based, clamped bounds
Slice(s, a, b) == SubSeq(s, Max(a, 0) + 1, Min(b, Len(s)))

\* len(set(s))
Distinct(s) == Cardinality({Ch(s, i) : i \in 1..Len(s)})

\* bytes.decode('ascii') succeeds: b holds no byte written "~"
IsAscii(b) == \A i \in 1..Len(b) : Ch(b, i) # "~"

\* str.isdigit()
IsDigit(s) == Len(s) > 0 /\ \A i \in 1..Len(s) : Ch(s, i) \in Digits

\* sub in s
Contains(sub, s) ==
  \E i \in 1..(Len(s) - Len(sub) + 1) : SubSeq(s, i, i + Len(sub) - 1) = sub

\* s.find(sub): 0-based offset of the first occurrence, -1 when there is none
Find(s, sub) ==
  LET hits == {i \in 1..(Len(s) - Len(sub) + 1) : SubSeq(s, i, i + Len(sub) - 1) = sub}
  IN  IF hits = {} THEN -1 ELSE (CHOOSE i \in hits : \A j \in hits : i <= j) - 1

\* s.startswith(prefix)
StartsWith(s, prefix) == Len(prefix) <= Len(s) /\ SubSeq(s, 1, Len(prefix)) = prefix

DigitVal(c) ==
  CASE c = "0" -> 0 [] c = "1" -> 1 [] c = "2" -> 2 [] c = "3" -> 3 [] c = "4" -> 4
    [] c = "5" -> 5 [] c = "6" -> 6 [] c = "7" -> 7 [] c = "8" -> 8 [] c = "9" -> 9

\* int(s) for a string of digits
RECURSIVE ToInt(_)
ToInt(s) == IF Len(s) = 0 THEN 0 ELSE 10 * ToInt(SubSeq(s, 1, Len(s) - 1)) + DigitVal(Ch(s, Len(s)))

\* s.split(sep) for a one-character sep
RECURSIVE Split(_, _)
Split(s, sep) ==
  LET p == Find(s, sep)
  IN  IF p < 0 THEN <<s>> ELSE <<SubSeq(s, 1, p)>> \o Split(SubSeq(s, p + 2, Len(s)), sep)

\* ------------------------------------------------- vocabulary and catalogue
Tokens ==
  { "hello",
    "1037394113P529TAYI",
    "03L906018AE EDC17_C46 1037394113P529TAYI",
    "10SW017935",
    "38/1/EDC17_C50/11/1396//VHKL0/",
    "38/1/EDC17_C50/11/P_1320//VHKL0/",
    "38/1/EDC17~C50/11/1396//VHKL0/",
    "0281014568",
    "RK3A-12A650-AB",
    "BV61-14C204-FK",
    "Ford Motor Co. 2025PXRK3A-12A650-AA",
    "SID307 CAFR1B00",
    "CARF8610RF86100010334254AA",
    "CRD2-651-TMABDD11-639A4X-100kW",
    "SM05B006_DELIV_1",
    "T6C1HB05_DELIV_3_G9CD_ML6_",
    "S180161502A9",
    "22222222FU 10214106AD",
    "TRANSTRON 4JK1    z98250658",
    "#B47D20O0-F10",
    "A0000000123  A0054469640",
    "A6511501879",
    "03L907309AE",
    "03L906018AE 5000 00123 0999 1396",
    "R4 2.0l TDI  CFFB",
    "03L906018AE R4 2.0l TDI  CFFB",
    "28208056",
    "FOS 9666912580",
    "CAYCJ623",
    "FPT.HEX 504388760" }

\* the tokens of the window and classification buffers that Tokens lacks
EdgeTokens ==
  { "X03L906018AE",
    "03L906018AE",
    "1396AB",
    "03L997016A",
    "04L997555B" }

\* every token a pattern is matched against
Vocabulary == Tokens \cup EdgeTokens

BOSCH_PATTERNS ==
  [
    \* rb'(10[3-9]\d{7})([A-Z]\d{3}[A-Z0-9]{2,6})'
    sw_variant |->
      [t \in Vocabulary |->
         CASE t = "1037394113P529TAYI" ->
                <<[g0 |-> "1037394113P529TAYI", g |-> <<"1037394113", "P529TAYI">>, at |-> 0]>>
           [] t = "03L906018AE EDC17_C46 1037394113P529TAYI" ->
                <<[g0 |-> "1037394113P529TAYI", g |-> <<"1037394113", "P529TAYI">>, at |-> 22]>>
           [] OTHER -> << >>],
    \* rb'(10[3-9]\d{7})'
    sw_number |->
      [t \in Vocabulary |->
         CASE t = "1037394113P529TAYI" ->
                <<[g0 |-> "1037394113", g |-> <<"1037394113">>, at |-> 0]>>
           [] t = "03L906018AE EDC17_C46 1037394113P529TAYI" ->
                <<[g0 |-> "1037394113", g |-> <<"1037394113">>, at |-> 22]>>
           [] OTHER -> << >>],
    \* rb'10SW(\d{6})'
    10sw |->
      [t \in Vocabulary |->
         CASE t = "10SW017935" ->
                <<[g0 |-> "10SW017935", g |-> <<"017935">>, at |-> 0]>>
           [] OTHER -> << >>],
    \* rb'(MDG1_MD1CS\d{3}|MD1CS\d{3}|EDC\d+_[A-Z]?\d+|MED\d+_[A-Z]?\d+|MEVD\d+_[A-Z]?\d+|MG1_[A-Z]{1,2}\d+)'
    ecu_type |->
      [t \in Vocabulary |->
         CASE t = "03L906018AE EDC17_C46 1037394113P529TAYI" ->
                <<[g0 |-> "EDC17_C46", g |-> <<"EDC17_C46">>, at |-> 12]>>
           [] t = "38/1/EDC17_C50/11/1396//VHKL0/" ->
                <<[g0 |-> "EDC17_C50", g |-> <<"EDC17_C50">>, at |-> 5]>>
           [] t = "38/1/EDC17_C50/11/P_1320//VHKL0/" ->
                <<[g0 |-> "EDC17_C50", g |-> <<"EDC17_C50">>, at |-> 5]>>
           [] OTHER -> << >>],
    \* rb'(\d+/\d+/((?:MDG1|EDC17|MED17|MG1|MD1|MEVD|ME)[^\x00/]{2,30})/(\d+)/([^\x00/]{2,20})//([^\x00/]{0,20})/)'
    path |->
      [t \in Vocabulary |->
         CASE t = "38/1/EDC17_C50/11/1396//VHKL0/" ->
                <<[g0 |-> "38/1/EDC17_C50/11/1396//VHKL0/", g |-> <<"38/1/EDC17_C50/11/1396//VHKL0/", "EDC17_C50", "11", "1396", "VHKL0">>, at |-> 0]>>
           [] t = "38/1/EDC17_C50/11/P_1320//VHKL0/" ->
                <<[g0 |-> "38/1/EDC17_C50/11/P_1320//VHKL0/", g |-> <<"38/1/EDC17_C50/11/P_1320//VHKL0/", "EDC17_C50", "11", "P_1320", "VHKL0">>, at |-> 0]>>
           [] t = "38/1/EDC17~C50/11/1396//VHKL0/" ->
                <<[g0 |-> "38/1/EDC17~C50/11/1396//VHKL0/", g |-> <<"38/1/EDC17~C50/11/1396//VHKL0/", "EDC17~C50", "11", "1396", "VHKL0">>, at |-> 0]>>
           [] OTHER -> << >>],
    \* rb'(?<!\d)(02[68]1\d{6})(?!\d)'
    hw_number |->
      [t \in Vocabulary |->
         CASE t = "0281014568" ->
                <<[g0 |-> "0281014568", g |-> <<"0281014568">>, at |-> 0]>>
           [] OTHER -> << >>] ]

CONTINENTAL_PATTERNS ==
  [
    \* rb'(?:SID|EMS|SIM|PCR)[\d.]{2,5}'
    ecu_type |->
      [t \in Vocabulary |->
         CASE t = "SID307 CAFR1B00" ->
                <<[g0 |-> "SID307", g |-> <<>>, at |-> 0]>>
           [] OTHER -> << >>],
    \* rb'(CA[RF][A-Z0-9]{5})'
    cal_id |->
      [t \in Vocabulary |->
         CASE t = "SID307 CAFR1B00" ->
                <<[g0 |-> "CAFR1B00", g |-> <<"CAFR1B00">>, at |-> 7]>>
           [] t = "CARF8610RF86100010334254AA" ->
                <<[g0 |-> "CARF8610", g |-> <<"CARF8610">>, at |-> 0]>>
           [] OTHER -> << >>],
    \* rb'CA[RF][A-Z0-9]{5}[A-Z0-9]{6,8}(\d{8}[A-Z]{2})'
    cal_block |->
      [t \in Vocabulary |->
         CASE t = "CARF8610RF86100010334254AA" ->
                <<[g0 |-> "CARF8610RF86100010334254AA", g |-> <<"10334254AA">>, at |-> 0]>>
           [] OTHER -> << >>] ]

FORD_PATTERNS ==
  [
    \* rb'(?<![A-Z0-9])([A-Z0-9]{4}-[A-Z0-9]{5,6}-[A-Z]{2})(?![A-Z0-9])'
    part_number |->
      [t \in Vocabulary |->
         CASE t = "RK3A-12A650-AB" ->
                <<[g0 |-> "RK3A-12A650-AB", g |-> <<"RK3A-12A650-AB">>, at |-> 0]>>
           [] t = "BV61-14C204-FK" ->
                <<[g0 |-> "BV61-14C204-FK", g |-> <<"BV61-14C204-FK">>, at |-> 0]>>
           [] OTHER -> << >>],
    \* rb'(?:Ford Motor Co\.\s*\d{4})([A-Z]{2}[A-Z0-9]{4}-[A-Z0-9]{5,6}-[A-Z]{2})'
    calibration |->
      [t \in Vocabulary |->
         CASE t = "Ford Motor Co. 2025PXRK3A-12A650-AA" ->
                <<[g0 |-> "Ford Motor Co. 2025PXRK3A-12A650-AA", g |-> <<"PXRK3A-12A650-AA">>, at |-> 0]>>
           [] OTHER -> << >>] ]

\* DELPHI_PATTERNS['deliv_ext'], which constants.py lacks
DELPHI_deliv_ext ==
  [t \in Vocabulary |->
     CASE t = "T6C1HB05_DELIV_3_G9CD_ML6_" ->
            <<[g0 |-> "T6C1HB05_DELIV_3_G9CD_", g |-> <<"G9CD">>, at |-> 0]>>
       [] OTHER -> << >>]

DELPHI_PATTERNS ==
  [
    \* rb'(CRD\d?)-(\d{3})-([A-Z0-9]+)'
    crd |->
      [t \in Vocabulary |->
         CASE t = "CRD2-651-TMABDD11-639A4X-100kW" ->
                <<[g0 |-> "CRD2-651-TMABDD11", g |-> <<"CRD2", "651", "TMABDD11">>, at |-> 0]>>
           [] OTHER -> << >>],
    \* rb'CRD\d?-\d{3}-[A-Z0-9]+-[A-Z0-9]+-(\d{2,3})[kK][wW]'
    crd_power |->
      [t \in Vocabulary |->
         CASE t = "CRD2-651-TMABDD11-639A4X-100kW" ->
                <<[g0 |-> "CRD2-651-TMABDD11-639A4X-100kW", g |-> <<"100">>, at |-> 0]>>
           [] OTHER -> << >>],
    \* rb'([A-Z0-9]{4,15})_DELIV_\d'
    deliv |->
      [t \in Vocabulary |->
         CASE t = "SM05B006_DELIV_1" ->
                <<[g0 |-> "SM05B006_DELIV_1", g |-> <<"SM05B006">>, at |-> 0]>>
           [] t = "T6C1HB05_DELIV_3_G9CD_ML6_" ->
                <<[g0 |-> "T6C1HB05_DELIV_3", g |-> <<"T6C1HB05">>, at |-> 0]>>
           [] OTHER -> << >>],
    \* rb'(?<!\d)(28[2-4]\d{5})(?!\d)'
    hw_part |->
      [t \in Vocabulary |->
         CASE t = "28208056" ->
                <<[g0 |-> "28208056", g |-> <<"28208056">>, at |-> 0]>>
           [] OTHER -> << >>] ]

DELCO_PATTERNS ==
  [
    \* rb'(S\d{9}[A-Z]\d)'
    hw_part |->
      [t \in Vocabulary |->
         CASE t = "S180161502A9" ->
                <<[g0 |-> "S180161502A9", g |-> <<"S180161502A9">>, at |-> 0]>>
           [] OTHER -> << >>],
    \* rb'(?<![0-9])(\d{8}[A-Z]{2})(?![A-Z0-9])'
    gm_cal |->
      [t \in Vocabulary |->
         CASE t = "22222222FU 10214106AD" ->
                <<[g0 |-> "22222222FU", g |-> <<"22222222FU">>, at |-> 0], [g0 |-> "10214106AD", g |-> <<"10214106AD">>, at |-> 11]>>
           [] OTHER -> << >>] ]

\* TRANSTRON_PATTERNS, which constants.py lacks
TRANSTRON_PATTERNS ==
  [
    \* rb'TRANSTRON'
    copyright |->
      [t \in Vocabulary |->
         CASE t = "TRANSTRON 4JK1    z98250658" ->
                <<[g0 |-> "TRANSTRON", g |-> <<>>, at |-> 0]>>
           [] OTHER -> << >>],
    \* rb'(\d[A-Z]{2}\d)\s+z(\d{8})'
    engine_part |->
      [t \in Vocabulary |->
         CASE t = "TRANSTRON 4JK1    z98250658" ->
                <<[g0 |-> "4JK1    z98250658", g |-> <<"4JK1", "98250658">>, at |-> 10]>>
           [] OTHER -> << >>] ]

\* BMW_PATTERNS, which constants.py lacks
BMW_PATTERNS ==
  [
    \* rb'#([A-Z]\d{2}[A-Z]\d{2}[A-Z0-9]{2})-'
    engine |->
      [t \in Vocabulary |->
         CASE t = "#B47D20O0-F10" ->
                <<[g0 |-> "#B47D20O0-", g |-> <<"B47D20O0">>, at |-> 0]>>
           [] OTHER -> << >>] ]

MERCEDES_PATTERNS ==
  [
    \* rb'(?<![A-Z0-9])(A\d{10})(?!\d)'
    part_number |->
      [t \in Vocabulary |->
         CASE t = "A0000000123  A0054469640" ->
                <<[g0 |-> "A0000000123", g |-> <<"A0000000123">>, at |-> 0], [g0 |-> "A0054469640", g |-> <<"A0054469640">>, at |-> 13]>>
           [] t = "A6511501879" ->
                <<[g0 |-> "A6511501879", g |-> <<"A6511501879">>, at |-> 0]>>
           [] OTHER -> << >>],
    \* rb'(A\d{10})\s+(A\d{10})'
    pair |->
      [t \in Vocabulary |->
         CASE t = "A0000000123  A0054469640" ->
                <<[g0 |-> "A0000000123  A0054469640", g |-> <<"A0000000123", "A0054469640">>, at |-> 0]>>
           [] OTHER -> << >>] ]

\* GENERIC_PATTERNS['bosch_path_oem'], which constants.py lacks
GENERIC_bosch_path_oem ==
  [t \in Vocabulary |-> << >>]

\* GENERIC_PATTERNS['hex_oem'], which constants.py lacks
GENERIC_hex_oem ==
  [t \in Vocabulary |->
     CASE t = "FPT.HEX 504388760" ->
            <<[g0 |-> ".HEX 504388760", g |-> <<"504388760">>, at |-> 3]>>
       [] OTHER -> << >>]

GENERIC_PATTERNS ==
  [
    \* rb'(?<![0-9A-Za-z])(\d{2,3}[A-Z]\d{6}[A-Z]{0,3})(?![0-9A-Za-z])'
    oem_number |->
      [t \in Vocabulary |->
         CASE t = "03L906018AE EDC17_C46 1037394113P529TAYI" ->
                <<[g0 |-> "03L906018AE", g |-> <<"03L906018AE">>, at |-> 0]>>
           [] t = "03L907309AE" ->
                <<[g0 |-> "03L907309AE", g |-> <<"03L907309AE">>, at |-> 0]>>
           [] t = "03L906018AE 5000 00123 0999 1396" ->
                <<[g0 |-> "03L906018AE", g |-> <<"03L906018AE">>, at |-> 0]>>
           [] t = "03L906018AE R4 2.0l TDI  CFFB" ->
                <<[g0 |-> "03L906018AE", g |-> <<"03L906018AE">>, at |-> 0]>>
           [] t = "03L906018AE" ->
                <<[g0 |-> "03L906018AE", g |-> <<"03L906018AE">>, at |-> 0]>>
           [] t = "03L997016A" ->
                <<[g0 |-> "03L997016A", g |-> <<"03L997016A">>, at |-> 0]>>
           [] t = "04L997555B" ->
                <<[g0 |-> "04L997555B", g |-> <<"04L997555B">>, at |-> 0]>>
           [] OTHER -> << >>],
    \* rb'([RVLI]\d\s+[\d.,]+[lL]\s+\w{2,6})\s+([A-Z]{3,4})'
    engine |->
      [t \in Vocabulary |->
         CASE t = "R4 2.0l TDI  CFFB" ->
                <<[g0 |-> "R4 2.0l TDI  CFFB", g |-> <<"R4 2.0l TDI", "CFFB">>, at |-> 0]>>
           [] t = "03L906018AE R4 2.0l TDI  CFFB" ->
                <<[g0 |-> "R4 2.0l TDI  CFFB", g |-> <<"R4 2.0l TDI", "CFFB">>, at |-> 12]>>
           [] OTHER -> << >>],
    \* rb'([RVLI]\d\s+[\d.,]+[lL]\s+[A-Z]{2,6})'
    engine_type |->
      [t \in Vocabulary |->
         CASE t = "R4 2.0l TDI  CFFB" ->
                <<[g0 |-> "R4 2.0l TDI", g |-> <<"R4 2.0l TDI">>, at |-> 0]>>
           [] t = "03L906018AE R4 2.0l TDI  CFFB" ->
                <<[g0 |-> "R4 2.0l TDI", g |-> <<"R4 2.0l TDI">>, at |-> 12]>>
           [] OTHER -> << >>],
    \* rb'([A-Z]{4})J623'
    vag_engine |->
      [t \in Vocabulary |->
         CASE t = "CAYCJ623" ->
                <<[g0 |-> "CAYCJ623", g |-> <<"CAYC">>, at |-> 0]>>
           [] OTHER -> << >>],
    \* rb'(?:FOS|PSAAPP|PSA_)[^\x00]{0,80}(\d{10})'
    psa_part |->
      [t \in Vocabulary |->
         CASE t = "FOS 9666912580" ->
                <<[g0 |-> "FOS 9666912580", g |-> <<"9666912580">>, at |-> 0]>>
           [] OTHER -> << >>] ]

\* The completed catalogue: constants.py as found defines neither
\* TRANSTRON_PATTERNS nor BMW_PATTERNS, and its DELPHI_PATTERNS and
\* GENERIC_PATTERNS lack the keys deliv_ext, bosch_path_oem and hex_oem that
\* bin_reader.py looks up.  catalog = "src" is constants.py as found: a lookup
\* of a key its dictionary lacks raises KeyError.  catalog = "completed" adds
\* the three keys, modelled from the comments of bin_reader.py.  The two absent
\* dictionaries are modelled from those comments under both.
Catalogs == {"src", "completed"}

Patterns(cat) ==
  [ BOSCH |-> BOSCH_PATTERNS,
    CONTINENTAL |-> CONTINENTAL_PATTERNS,
    FORD |-> FORD_PATTERNS,
    DELPHI |-> IF cat = "completed"
               THEN [deliv_ext |-> DELPHI_deliv_ext] @@ DELPHI_PATTERNS
               ELSE DELPHI_PATTERNS,
    DELCO |-> DELCO_PATTERNS,
    TRANSTRON |-> TRANSTRON_PATTERNS,
    BMW |-> BMW_PATTERNS,
    MERCEDES |-> MERCEDES_PATTERNS,
    GENERIC |-> IF cat = "completed"
                THEN [bosch_path_oem |-> GENERIC_bosch_path_oem,
                      hex_oem |-> GENERIC_hex_oem] @@ GENERIC_PATTERNS
                ELSE GENERIC_PATTERNS ]

\* ------------------------------------------------------------ byte buffers
\* data is a sequence of items [b |-> token, pad |-> n]: the token's bytes
\* followed by n >= 1 NUL bytes.
Item(t) == [b |-> t, pad |-> 1]

RECURSIVE DataLen(_)
DataLen(data) ==
  IF data = << >> THEN 0
  ELSE Len(data[1].b) + data[1].pad + DataLen(Tail(data))

\* offset of the first byte of item i
Offset(data, i) == DataLen(SubSeq(data, 1, i - 1))

\* re.finditer(pattern, data): the matches in buffer order, at absolute offsets
RECURSIVE finditerFrom(_, _, _)
finditerFrom(pat, data, i) ==
  IF i > Len(data) THEN << >>
  ELSE LET ms == pat[data[i].b]
       IN  [k \in 1..Len(ms) |-> [ms[k] EXCEPT !.at = @ + Offset(data, i)]]
             \o finditerFrom(pat, data, i + 1)

finditer(pat, data) == finditerFrom(pat, data, 1)

\* re.search(pattern, data): << >> for None, else the one-element sequence of
\* the first match
search(pat, data) ==
  LET ms == finditer(pat, data) IN IF ms = << >> THEN << >> ELSE <<ms[1]>>

\* re.findall(pattern, data) for a pattern with one group
findall(pat, data) ==
  LET ms == finditer(pat, data) IN [k \in 1..Len(ms) |-> ms[k].g[1]]

\* data.find(sub)
RECURSIVE DataFindFrom(_, _, _)
DataFindFrom(data, sub, i) ==
  IF i > Len(data) THEN -1
  ELSE IF Contains(sub, data[i].b) THEN Offset(data, i) + Find(data[i].b, sub)
  ELSE DataFindFrom(data, sub, i + 1)

DataFind(data, sub) == DataFindFrom(data, sub, 1)

\* ----------------------------------------------------------- result record
Fields ==
  {"sw_version", "bosch_sw_number", "bosch_variant", "oem_hw_number",
   "oem_sw_number", "ecu_type", "engine_type", "engine_code"}

FlagKey == "_is_delphi_crd"

EmptyResult == [f \in Fields |-> ""]

\* result.get('_is_delphi_crd')
GetFlag(result) == FlagKey \in DOMAIN result /\ result[FlagKey]

\* result['_is_delphi_crd'] = True
SetFlag(result) ==
  [k \in DOMAIN result \cup {FlagKey} |-> IF k = FlagKey THEN TRUE ELSE result[k]]

\* result.pop('_is_delphi_crd', None)
PopFlag(result) == [k \in DOMAIN result \ {FlagKey} |-> result[k]]

\* try: result[key] = b.decode('ascii')  except UnicodeDecodeError: pass
SetDecoded(result, key, b) ==
  IF IsAscii(b) THEN [result EXCEPT ![key] = b] ELSE result

\* what an extractor leaves behind: the record, the exception that left it
\* ("" when it returned) and, as a sequence of length 0 or 1, the value a call
\* of _find_sw_version returned
Ok(result) == [result |-> result, exc |-> "", fallback |-> << >>]
Raised(result, e) == [result |-> result, exc |-> e, fallback |-> << >>]

\* ------------------------------------------------------- brand extractors
\* Every block of an extractor is an operator from the record it finds to the
\* record it leaves; the extractor is the composition of its blocks.

\* SW number + variant
BoschSwVariant(p, data, r) ==
  LET m == search(p.sw_variant, data)
  IN  IF m = << >> \/ ~IsAscii(m[1].g[1]) THEN r
      ELSE SetDecoded([r EXCEPT !["bosch_sw_number"] = m[1].g[1]],
                      "bosch_variant", m[1].g[2])

\* Fallback: plain SW number without variant
BoschSwNumber(p, data, r) ==
  LET m == search(p.sw_number, data)
  IN  IF r["bosch_sw_number"] = "" /\ m # << >>
      THEN SetDecoded(r, "bosch_sw_number", m[1].g[1]) ELSE r

\* ECU type
BoschEcuType(p, data, r) ==
  LET m == search(p.ecu_type, data)
  IN  IF m # << >> THEN SetDecoded(r, "ecu_type", m[1].g[1]) ELSE r

\* the three writes with any variant of three or more characters as sw_version
BoschPathWritesAnyVariant(r, path_ecu, path_variant, path_id) ==
  [r EXCEPT
     !["ecu_type"] = IF @ = "" THEN path_ecu ELSE @,
     !["sw_version"] = IF @ = "" /\ path_variant # "" /\ Len(path_variant) >= 3
                       THEN path_variant ELSE @,
     !["bosch_sw_number"] = IF @ = "" /\ path_id # "" THEN path_id ELSE @]

\* the three writes of the firmware version path block
BoschPathWrites(r, path_ecu, path_variant, path_id) ==
  [r EXCEPT
     !["ecu_type"] = IF @ = "" THEN path_ecu ELSE @,
     !["sw_version"] = IF @ = "" /\ path_variant # "" /\ IsDigit(path_variant)
                          /\ Len(path_variant) >= 3
                       THEN path_variant ELSE @,
     !["bosch_sw_number"] = IF @ = "" /\ path_id # "" THEN path_id ELSE @]

\* the path block writing what it captured whether or not every span decodes
BoschPathUnguarded(p, data, r) ==
  LET m == search(p.path, data)
  IN  IF m = << >> THEN r
      ELSE BoschPathWrites(r, m[1].g[2], m[1].g[4], m[1].g[5])

\* Firmware version path
BoschPath(p, data, r) ==
  LET m == search(p.path, data)
  IN  IF m = << >> THEN r
      ELSE IF IsAscii(m[1].g[2]) /\ IsAscii(m[1].g[4]) /\ IsAscii(m[1].g[5])
      THEN BoschPathWrites(r, m[1].g[2], m[1].g[4], m[1].g[5])
      ELSE r

\* 10SW software part number
Bosch10sw(p, data, r) ==
  LET m == search(p["10sw"], data)
  IN  IF r["bosch_sw_number"] = "" /\ m # << >> /\ IsAscii(m[1].g[1])
      THEN [r EXCEPT !["bosch_sw_number"] = "10SW" \o m[1].g[1]] ELSE r

\* has_bosch, with re.match(r'(?:EDC|MED|MEVD|MG1|MD1|MDG1)', ecu_type)
has_bosch(r) ==
  \/ r["bosch_sw_number"] # ""
  \/ r["bosch_variant"] # ""
  \/ /\ r["ecu_type"] # ""
     /\ \E pre \in {"EDC", "MED", "MEVD", "MG1", "MD1", "MDG1"} : StartsWith(r["ecu_type"], pre)

\* Bosch ECU hardware number
BoschHwNumber(p, data, r) ==
  LET m == search(p.hw_number, data)
  IN  IF r["oem_hw_number"] = "" /\ has_bosch(r) /\ m # << >>
      THEN SetDecoded(r, "oem_hw_number", m[1].g[1]) ELSE r

_extract_bosch(p, data, result) ==
  Ok(BoschHwNumber(p, data,
     Bosch10sw(p, data,
     BoschPath(p, data,
     BoschEcuType(p, data,
     BoschSwNumber(p, data,
     BoschSwVariant(p, data, result)))))))

\* len(set(val[:8])) >= 4: the dummy-value filter
NotDummy8(val) == Distinct(Slice(val, 0, 8)) >= 4

ContinentalEcuType(p, data, r) ==
  LET m == search(p.ecu_type, data)
  IN  IF r["ecu_type"] = "" /\ m # << >> THEN SetDecoded(r, "ecu_type", m[1].g0) ELSE r

\* the calibration ID written over the software version that is there
ContinentalCalIdOverwrites(p, data, r) ==
  LET m == search(p.cal_id, data)
  IN  IF m # << >> THEN SetDecoded(r, "sw_version", m[1].g[1]) ELSE r

ContinentalCalId(p, data, r) ==
  LET m == search(p.cal_id, data)
  IN  IF r["sw_version"] = "" /\ m # << >> THEN SetDecoded(r, "sw_version", m[1].g[1]) ELSE r

ContinentalCalBlock(p, data, r) ==
  LET m == search(p.cal_block, data)
  IN  IF r["oem_sw_number"] = "" /\ m # << >> /\ IsAscii(m[1].g[1]) /\ NotDummy8(m[1].g[1])
      THEN [r EXCEPT !["oem_sw_number"] = m[1].g[1]] ELSE r

_extract_continental(p, data, result) ==
  Ok(ContinentalCalBlock(p, data,
     ContinentalCalId(p, data,
     ContinentalEcuType(p, data, result))))

\* 'C' in mid[:3], with mid the second dash-separated segment of val
FordIsHw(val) ==
  Contains("C", Slice(IF Contains("-", val) THEN Split(val, "-")[2] ELSE "", 0, 3))

\* the three writes after the part numbers are split into ford_sw and ford_hw
FordPartWrites(r, ford_sw, ford_hw) ==
  [r EXCEPT
     !["oem_sw_number"] = IF ford_sw # << >> /\ @ = "" THEN ford_sw[1] ELSE @,
     !["oem_hw_number"] = IF ford_hw # << >> /\ @ = "" THEN ford_hw[1] ELSE @,
     !["sw_version"] = IF ford_sw # << >> /\ @ = "" THEN ford_sw[1] ELSE @]

FordPartNumbers(p, data, r) ==
  LET ford_parts == SelectSeq(findall(p.part_number, data), IsAscii)
  IN  FordPartWrites(r, SelectSeq(ford_parts, LAMBDA val : ~FordIsHw(val)), SelectSeq(ford_parts, FordIsHw))

FordCalibration(p, data, r) ==
  LET m == search(p.calibration, data)
  IN  IF m # << >> /\ IsAscii(m[1].g[1]) /\ r["bosch_sw_number"] = ""
      THEN [r EXCEPT !["bosch_sw_number"] = m[1].g[1]] ELSE r

_extract_ford(p, data, result) ==
  Ok(FordCalibration(p, data, FordPartNumbers(p, data, result)))

\* the CRD block writing ecu_type and sw_version over what is there
DelphiCrdOverwrites(r, crd_ecu, crd_engine, crd_sw) ==
  [r EXCEPT
     !["ecu_type"] = crd_ecu,
     !["sw_version"] = crd_sw,
     !["engine_code"] = IF @ = "" /\ IsDigit(crd_engine) THEN "OM" \o crd_engine ELSE @,
     !["bosch_sw_number"] = "",
     !["bosch_variant"] = "",
     !["oem_hw_number"] = ""]

\* the writes of the CRD block once its three groups are decoded
DelphiCrdWrites(r, crd_ecu, crd_engine, crd_sw) ==
  [r EXCEPT
     !["ecu_type"] = IF @ = "" THEN crd_ecu ELSE @,
     !["sw_version"] = IF @ = "" THEN crd_sw ELSE @,
     !["engine_code"] = IF @ = "" /\ IsDigit(crd_engine) THEN "OM" \o crd_engine ELSE @,
     !["bosch_sw_number"] = "",
     !["bosch_variant"] = "",
     !["oem_hw_number"] = ""]

\* CRD metadata: the flag, then the last match
DelphiCrd(p, data, r) ==
  LET crd_matches == finditer(p.crd, data)
      m == crd_matches[Len(crd_matches)]
  IN  IF crd_matches = << >> THEN r
      ELSE IF IsAscii(m.g[1]) /\ IsAscii(m.g[2]) /\ IsAscii(m.g[3])
      THEN DelphiCrdWrites(SetFlag(r), m.g[1], m.g[2], m.g[3])
      ELSE SetFlag(r)

\* CRD power rating, only inside the CRD block
DelphiCrdPower(p, data, r) ==
  LET m_power == search(p.crd_power, data)
  IN  IF finditer(p.crd, data) # << >> /\ r["engine_type"] = "" /\ m_power # << >>
         /\ IsAscii(m_power[1].g[1])
      THEN [r EXCEPT !["engine_type"] = m_power[1].g[1] \o "kW"] ELSE r

\* the DELIV block clearing the Bosch and hardware values as the CRD block does
DelphiDelivRetracts(p, data, r) ==
  LET deliv_matches == finditer(p.deliv, data)
  IN  IF r["sw_version"] = "" /\ deliv_matches # << >>
      THEN [SetDecoded(SetFlag(r), "sw_version", deliv_matches[Len(deliv_matches)].g[1])
              EXCEPT !["bosch_sw_number"] = "", !["bosch_variant"] = "",
                     !["oem_hw_number"] = ""]
      ELSE r

\* DELIV calibration ID: the flag, then the last match
DelphiDeliv(p, data, r) ==
  LET deliv_matches == finditer(p.deliv, data)
  IN  IF r["sw_version"] = "" /\ deliv_matches # << >>
      THEN SetDecoded(SetFlag(r), "sw_version", deliv_matches[Len(deliv_matches)].g[1])
      ELSE r

\* Engine code from DELIV extended; p['deliv_ext'] raises KeyError when the
\* dictionary lacks the key
DelphiDelivExt(p, data, r) ==
  IF r["engine_code"] # "" THEN Ok(r)
  ELSE IF "deliv_ext" \notin DOMAIN p THEN Raised(r, "KeyError")
  ELSE LET m == search(p.deliv_ext, data)
       IN  IF m # << >> THEN Ok(SetDecoded(r, "engine_code", m[1].g[1])) ELSE Ok(r)

_extract_delphi(p, data, result) ==
  DelphiDelivExt(p, data,
    DelphiDeliv(p, data,
    DelphiCrdPower(p, data,
    DelphiCrd(p, data, result))))

\* the first element of hits, as a sequence of length 0 or 1 (the loop's break)
FirstOf(hits) == IF hits = << >> THEN << >> ELSE <<hits[1]>>

DelcoHwPart(p, data, r) ==
  LET m == search(p.hw_part, data)
  IN  IF r["oem_hw_number"] = "" /\ m # << >>
      THEN SetDecoded(r, "oem_hw_number", m[1].g[1]) ELSE r

\* the GM calibration block without the dummy filter
DelcoGmCalUnfiltered(p, data, r) ==
  LET cal == FirstOf(SelectSeq(findall(p.gm_cal, data), IsAscii))
  IN  IF r["oem_sw_number"] = "" /\ cal # << >>
      THEN [r EXCEPT !["oem_sw_number"] = cal[1]] ELSE r

\* GM calibration number
DelcoGmCal(p, data, r) ==
  LET cal == FirstOf(SelectSeq(findall(p.gm_cal, data), LAMBDA val : IsAscii(val) /\ NotDummy8(val)))
  IN  IF r["oem_sw_number"] = "" /\ cal # << >>
      THEN [r EXCEPT !["oem_sw_number"] = cal[1]] ELSE r

_extract_delco(p, data, result) ==
  Ok(DelcoGmCal(p, data, DelcoHwPart(p, data, result)))

\* Engine code + part number: engine_code is written before the part number
\* is decoded
TranstronEnginePart(r, g1, g2) ==
  IF r["engine_code"] = "" /\ ~IsAscii(g1) THEN r
  ELSE IF r["oem_sw_number"] # "" \/ ~IsAscii(g2)
  THEN [r EXCEPT !["engine_code"] = IF @ = "" THEN g1 ELSE @]
  ELSE [r EXCEPT !["engine_code"] = IF @ = "" THEN g1 ELSE @, !["oem_sw_number"] = g2]

_extract_transtron(p, data, result) ==
  LET m == search(p.engine_part, data)
  IN  IF search(p.copyright, data) = << >> THEN Ok(result)
      ELSE IF m = << >> THEN Ok(result)
      ELSE Ok(TranstronEnginePart(result, m[1].g[1], m[1].g[2]))

_extract_bmw(p, data, result) ==
  LET m == search(p.engine, data)
  IN  IF result["engine_code"] = "" /\ m # << >>
      THEN Ok(SetDecoded(result, "engine_code", m[1].g[1])) ELSE Ok(result)

\* len(set(val[1:])) >= 4: the Mercedes filter, over the digits after the A
MercedesDistinct(val) == Distinct(Slice(val, 1, Len(val))) >= 4

\* A-number pairs
MercedesPair(p, data, r) ==
  LET m == search(p.pair, data)
  IN  IF m # << >> /\ IsAscii(m[1].g[1]) /\ IsAscii(m[1].g[2])
      THEN [r EXCEPT
              !["oem_hw_number"] = IF @ = "" /\ MercedesDistinct(m[1].g[1])
                                   THEN m[1].g[1] ELSE @,
              !["oem_sw_number"] = IF @ = "" /\ MercedesDistinct(m[1].g[2])
                                   THEN m[1].g[2] ELSE @]
      ELSE r

\* Fallback: single A-numbers
MercedesSingle(p, data, r) ==
  LET single == FirstOf(SelectSeq(findall(p.part_number, data),
                         LAMBDA val : IsAscii(val) /\ MercedesDistinct(val)))
  IN  IF r["oem_hw_number"] = "" /\ single # << >>
      THEN [r EXCEPT !["oem_hw_number"] = single[1]] ELSE r

\* the Mercedes extractor without the test of the Delphi flag
MercedesUngated(p, data, result) ==
  Ok(MercedesSingle(p, data, MercedesPair(p, data, result)))

_extract_mercedes(p, data, result) ==
  IF ~GetFlag(result) THEN Ok(result)
  ELSE Ok(MercedesSingle(p, data, MercedesPair(p, data, result)))

\* ------------------------------------------- software-version fallback locator
\* re.findall(rb'(?<![0-9A-Za-z])(\d{4,5})(?![0-9A-Za-z])', s), scanning s
\* from the 1-based position i
DigitRun(s, i, n) == i + n - 1 <= Len(s) /\ \A k \in i..(i + n - 1) : Ch(s, k) \in Digits

NotAlNumAt(s, i) == i < 1 \/ i > Len(s) \/ Ch(s, i) \notin AlNum

RECURSIVE VersionScan(_, _)
VersionScan(s, i) ==
  IF i > Len(s) THEN << >>
  ELSE IF NotAlNumAt(s, i - 1) /\ DigitRun(s, i, 5) /\ NotAlNumAt(s, i + 5)
       THEN <<SubSeq(s, i, i + 4)>> \o VersionScan(s, i + 5)
  ELSE IF NotAlNumAt(s, i - 1) /\ DigitRun(s, i, 4) /\ NotAlNumAt(s, i + 4)
       THEN <<SubSeq(s, i, i + 3)>> \o VersionScan(s, i + 4)
  ELSE VersionScan(s, i + 1)

\* the bytes of item i that lie inside data[start:end]
Clip(data, i, start, end) ==
  SubSeq(data[i].b, Max(start - Offset(data, i), 0) + 1,
         Min(end - Offset(data, i), Len(data[i].b)))

\* the matches of the version pattern in region = data[start:end], token by
\* token (the bytes between tokens are NUL)
RECURSIVE RegionCandidates(_, _, _, _)
RegionCandidates(data, start, end, i) ==
  IF i > Len(data) THEN << >>
  ELSE VersionScan(Clip(data, i, start, end), 1) \o RegionCandidates(data, start, end, i + 1)

\* the rejections of a candidate without the multiple-of-1000 test
VersionRejectedNoRound(val, oem_strings) ==
  \/ \E oem_str \in oem_strings : Contains(val, oem_str)
  \/ StartsWith(val, "0")
  \/ ToInt(val) < 1000

\* the four rejections of a candidate
VersionRejected(val, oem_strings) ==
  \/ \E oem_str \in oem_strings : Contains(val, oem_str)
  \/ StartsWith(val, "0")
  \/ ToInt(val) % 1000 = 0
  \/ ToInt(val) < 1000

WindowBefore == 2048
WindowAfter == 4096

\* the first candidate of the window around oem_pos that is not rejected
VersionNear(data, oem_pos, oem_strings) ==
  LET kept == SelectSeq(RegionCandidates(data, Max(0, oem_pos - WindowBefore),
                                         Min(DataLen(data), oem_pos + WindowAfter), 1),
                        LAMBDA val : ~VersionRejected(val, oem_strings))
  IN  IF kept = << >> THEN "" ELSE kept[1]

_find_sw_version(data, oem_matches) ==
  IF oem_matches = << >> THEN ""
  ELSE IF DataFind(data, oem_matches[1]) < 0 THEN ""
  ELSE VersionNear(data, DataFind(data, oem_matches[1]),
                   {oem_matches[k] : k \in {j \in 1..Len(oem_matches) : IsAscii(oem_matches[j])}})

\* --------------------------------------------------------- generic extractor
\* the candidate lists when a value without marker never takes the software role
RECURSIVE OemCandidatesNoSoftwareSlot(_, _)
OemCandidatesNoSoftwareSlot(vals, n) ==
  IF n = 0 THEN [hw |-> << >>, sw |-> << >>]
  ELSE IF Contains("907", vals[n])
       THEN [OemCandidatesNoSoftwareSlot(vals, n - 1) EXCEPT !.hw = Append(@, vals[n])]
  ELSE IF Contains("906", vals[n])
       THEN [OemCandidatesNoSoftwareSlot(vals, n - 1) EXCEPT !.sw = Append(@, vals[n])]
  ELSE IF OemCandidatesNoSoftwareSlot(vals, n - 1).hw = << >>
       THEN [OemCandidatesNoSoftwareSlot(vals, n - 1) EXCEPT !.hw = Append(@, vals[n])]
  ELSE OemCandidatesNoSoftwareSlot(vals, n - 1)

\* the hardware and software candidate lists after the first n OEM matches
RECURSIVE OemCandidates(_, _)
OemCandidates(vals, n) ==
  IF n = 0 THEN [hw |-> << >>, sw |-> << >>]
  ELSE IF Contains("907", vals[n])
       THEN [OemCandidates(vals, n - 1) EXCEPT !.hw = Append(@, vals[n])]
  ELSE IF Contains("906", vals[n])
       THEN [OemCandidates(vals, n - 1) EXCEPT !.sw = Append(@, vals[n])]
  ELSE IF OemCandidates(vals, n - 1).hw = << >>
       THEN [OemCandidates(vals, n - 1) EXCEPT !.hw = Append(@, vals[n])]
  ELSE IF OemCandidates(vals, n - 1).sw = << >>
       THEN [OemCandidates(vals, n - 1) EXCEPT !.sw = Append(@, vals[n])]
  ELSE OemCandidates(vals, n - 1)

\* VAG OEM part numbers
GenericOemNumbers(p, data, r) ==
  LET decoded == SelectSeq(findall(p.oem_number, data), IsAscii)
      cand == OemCandidates(decoded, Len(decoded))
  IN  [r EXCEPT
         !["oem_hw_number"] = IF cand.hw # << >> /\ @ = "" THEN cand.hw[1] ELSE @,
         !["oem_sw_number"] = IF cand.sw # << >> /\ @ = "" THEN cand.sw[1] ELSE @]

\* Engine type + code
GenericEngine(p, data, r) ==
  LET m == search(p.engine, data)
  IN  IF m = << >> \/ ~IsAscii(m[1].g[1]) THEN r
      ELSE SetDecoded([r EXCEPT !["engine_type"] = m[1].g[1]], "engine_code", m[1].g[2])

\* Fallback: engine type without separate code
GenericEngineType(p, data, r) ==
  LET m == search(p.engine_type, data)
  IN  IF r["engine_type"] = "" /\ m # << >> THEN SetDecoded(r, "engine_type", m[1].g[1]) ELSE r

\* VAG engine code near controller address
GenericVagEngine(p, data, r) ==
  LET m == search(p.vag_engine, data)
  IN  IF r["engine_code"] = "" /\ m # << >> THEN SetDecoded(r, "engine_code", m[1].g[1]) ELSE r

\* PSA part number from calibration context
GenericPsaPart(p, data, r) ==
  LET m == search(p.psa_part, data)
  IN  IF r["oem_sw_number"] = "" /\ m # << >>
      THEN SetDecoded(r, "oem_sw_number", m[1].g[1]) ELSE r

\* OEM part number from Bosch path extension
GenericBoschPathOem(p, data, r) ==
  LET m == search(p.bosch_path_oem, data)
  IN  IF r["oem_sw_number"] = "" /\ m # << >> /\ IsAscii(m[1].g[1])
         /\ Distinct(m[1].g[1]) >= 4
      THEN [r EXCEPT !["oem_sw_number"] = m[1].g[1]] ELSE r

\* OEM SW number after .HEX calibration filename
GenericHexOem(p, data, r) ==
  LET m == search(p.hex_oem, data)
  IN  IF r["oem_sw_number"] = "" /\ m # << >>
      THEN SetDecoded(r, "oem_sw_number", m[1].g[1]) ELSE r

\* SW version fallback
GenericSwVersion(p, data, r) ==
  LET sw_version == _find_sw_version(data, findall(p.oem_number, data))
  IN  IF r["sw_version"] = "" /\ sw_version # ""
      THEN [r EXCEPT !["sw_version"] = sw_version] ELSE r

\* Delphi HW part number fallback, with DELPHI_PATTERNS['hw_part']
GenericDelphiHw(hw_part, data, r) ==
  LET hw == FirstOf(SelectSeq(findall(hw_part, data), LAMBDA val : IsAscii(val) /\ Distinct(val) >= 4))
  IN  IF r["oem_hw_number"] = "" /\ GetFlag(r) /\ hw # << >>
      THEN [r EXCEPT !["oem_hw_number"] = hw[1]] ELSE r

\* the end of the extractor without result.pop('_is_delphi_crd', None)
GenericEndKeepsFlag(p, hw_part, data, r) ==
  [Ok(GenericDelphiHw(hw_part, data, GenericSwVersion(p, data, r))) EXCEPT
     !.fallback = IF r["sw_version"] = ""
                  THEN <<_find_sw_version(data, findall(p.oem_number, data))>>
                  ELSE << >>]

\* from the SW version fallback to the end, with r the record after the .HEX block
GenericEnd(p, hw_part, data, r) ==
  [Ok(PopFlag(GenericDelphiHw(hw_part, data, GenericSwVersion(p, data, r)))) EXCEPT
     !.fallback = IF r["sw_version"] = ""
                  THEN <<_find_sw_version(data, findall(p.oem_number, data))>>
                  ELSE << >>]

\* from the .HEX block on, with r the record after the Bosch path block;
\* p['hex_oem'] raises KeyError when the dictionary lacks the key
GenericFromHex(p, hw_part, data, r) ==
  IF r["oem_sw_number"] = "" /\ "hex_oem" \notin DOMAIN p THEN Raised(r, "KeyError")
  ELSE GenericEnd(p, hw_part, data, GenericHexOem(p, data, r))

\* from the Bosch path block on, with r the record after the PSA block;
\* p['bosch_path_oem'] raises KeyError when the dictionary lacks the key
GenericFromBoschPath(p, hw_part, data, r) ==
  IF r["oem_sw_number"] = "" /\ "bosch_path_oem" \notin DOMAIN p THEN Raised(r, "KeyError")
  ELSE GenericFromHex(p, hw_part, data, GenericBoschPathOem(p, data, r))

_extract_generic(p, hw_part, data, result) ==
  GenericFromBoschPath(p, hw_part, data,
    GenericPsaPart(p, data,
    GenericVagEngine(p, data,
    GenericEngineType(p, data,
    GenericEngine(p, data,
    GenericOemNumbers(p, data, result))))))

\* ------------------------------------------------------------ filename parser
\* the letter of `to` at the place c has in `from`, c itself when it has none
MapChar(c, from, to) ==
  IF \E i \in 1..Len(from) : Ch(from, i) = c
  THEN Ch(to, CHOOSE i \in 1..Len(from) : Ch(from, i) = c)
  ELSE c

RECURSIVE MapStr(_, _, _)
MapStr(s, from, to) ==
  IF Len(s) = 0 THEN ""
  ELSE MapChar(Ch(s, 1), from, to) \o MapStr(SubSeq(s, 2, Len(s)), from, to)

\* str.lower(), str.upper(), str.capitalize()
Lower(s) == MapStr(s, "ABCDEFGHIJKLMNOPQRSTUVWXYZ", "abcdefghijklmnopqrstuvwxyz")
Upper(s) == MapStr(s, "abcdefghijklmnopqrstuvwxyz", "ABCDEFGHIJKLMNOPQRSTUVWXYZ")
Capitalize(s) ==
  IF Len(s) = 0 THEN "" ELSE Upper(Ch(s, 1)) \o Lower(SubSeq(s, 2, Len(s)))

\* s.endswith(suffix)
EndsWith(s, suffix) ==
  Len(suffix) <= Len(s) /\ SubSeq(s, Len(s) - Len(suffix) + 1, Len(s)) = suffix

\* s.replace(old, new) for a non-empty old
RECURSIVE Replace(_, _, _)
Replace(s, old, new) ==
  IF Find(s, old) < 0 THEN s
  ELSE SubSeq(s, 1, Find(s, old)) \o new
         \o Replace(SubSeq(s, Find(s, old) + Len(old) + 1, Len(s)), old, new)

\* s.strip() of blanks
RECURSIVE Strip(_)
Strip(s) ==
  IF Len(s) > 0 /\ Ch(s, 1) = " " THEN Strip(SubSeq(s, 2, Len(s)))
  ELSE IF Len(s) > 0 /\ Ch(s, Len(s)) = " " THEN Strip(SubSeq(s, 1, Len(s) - 1))
  ELSE s

\* ' '.join(parts)
RECURSIVE Join(_)
Join(parts) ==
  IF parts = << >> THEN ""
  ELSE IF Len(parts) = 1 THEN parts[1]
  ELSE parts[1] \o " " \o Join(Tail(parts))

\* os.path.basename(file_path)
RECURSIVE basename(_)
basename(file_path) ==
  IF Find(file_path, "/") < 0 THEN file_path
  ELSE basename(SubSeq(file_path, Find(file_path, "/") + 2, Len(file_path)))

ECU_BRANDS ==
  <<"Bosch", "Siemens", "Delphi", "Continental", "Marelli", "Valeo", "Denso",
    "PCR", "EDC", "MED", "Delco", "Transtron">>

FLEX_BRANDS ==
  [fomoco |-> "Ford", psa |-> "PSA", vag |-> "Volkswagen", bmw |-> "BMW",
   fca |-> "FCA", renault |-> "Renault", nissan |-> "Nissan", opel |-> "Opel",
   toyota |-> "Toyota", hyundai |-> "Hyundai", kia |-> "Kia",
   mercedes |-> "Mercedes", gm |-> "GM", jlr |-> "JLR", suzuki |-> "Suzuki",
   subaru |-> "Subaru", mazda |-> "Mazda", mitsubishi |-> "Mitsubishi",
   volvo |-> "Volvo", iveco |-> "Iveco", man |-> "MAN", daf |-> "DAF",
   scania |-> "Scania", isuzu |-> "Isuzu", honda |-> "Honda",
   jaguar |-> "Jaguar", landrover |-> "Land Rover", porsche |-> "Porsche",
   audi |-> "Audi", seat |-> "Seat", skoda |-> "Skoda",
   chrysler |-> "Chrysler", jeep |-> "Jeep", dodge |-> "Dodge",
   alfa |-> "Alfa Romeo", fiat |-> "Fiat", lancia |-> "Lancia",
   citroen |-> "Citroen", peugeot |-> "Peugeot", ds |-> "DS", mini |-> "Mini",
   smart |-> "Smart"]

FLEX_ECU_BRANDS ==
  {"bosch", "siemens", "delphi", "continental", "marelli", "denso", "delco",
   "valeo", "hitachi", "kefico", "transtron"}

FLEX_READ_METHODS == {"obd", "bench", "boot"}

READ_METHODS == <<"Normal Read-OBD", "Virtual Read-OBD", "Bench", "Boot">>

\* filename.replace('.bin', '').replace('.BIN', '')
StripBin(filename) == Replace(Replace(filename, ".bin", ""), ".BIN", "")

\* the detection without the test of the second part
IsFlexByBrandOnly(filename) ==
  LET name == StripBin(filename)
      parts == Split(name, "-")
  IN  IF Contains("_", name) /\ ~Contains("-", name) THEN FALSE
      ELSE IF Len(parts) < 4 THEN FALSE
      ELSE Lower(parts[1]) \in DOMAIN FLEX_BRANDS

is_flex_filename(filename) ==
  LET name == StripBin(filename)
      parts == Split(name, "-")
  IN  IF Contains("_", name) /\ ~Contains("-", name) THEN FALSE
      ELSE IF Len(parts) < 4 THEN FALSE
      ELSE IF Lower(parts[1]) \in DOMAIN FLEX_BRANDS THEN TRUE
      ELSE Lower(parts[2]) \in FLEX_ECU_BRANDS

\* the dictionary with no default for the date
NewParsedNoDate(today) ==
  [make |-> "", model |-> "", engine |-> "", ecu |-> "", date |-> "",
   mileage |-> "", registration |-> "", read_method |-> ""]

\* the dictionary both parsers start from
NewParsed(today) ==
  [make |-> "", model |-> "", engine |-> "", ecu |-> "", date |-> today,
   mileage |-> "", registration |-> "", read_method |-> ""]

IsTimestamp(part) == Len(part) = 14 /\ IsDigit(part) /\ Slice(part, 0, 2) = "20"

\* the index (0-based) of the first timestamp part, -1 for None
TimestampIdx(parts) ==
  LET hits == {i \in 1..Len(parts) : IsTimestamp(parts[i])}
  IN  IF hits = {} THEN -1 ELSE (CHOOSE i \in hits : \A j \in hits : i <= j) - 1

\* parts[:timestamp_idx] if timestamp_idx else parts
MetaParts(parts) ==
  IF TimestampIdx(parts) > 0 THEN SubSeq(parts, 1, TimestampIdx(parts)) ELSE parts

\* the read method of the last part that names one
FlexReadMethodRawLast(remaining) ==
  LET hits == SelectSeq(remaining, LAMBDA part : Lower(part) \in FLEX_READ_METHODS)
  IN  IF hits = << >> THEN "" ELSE Lower(hits[Len(hits)])

\* the read method of the first part that names one, "" when none does
FlexReadMethodRaw(remaining) ==
  LET hits == SelectSeq(remaining, LAMBDA part : Lower(part) \in FLEX_READ_METHODS)
  IN  IF hits = << >> THEN "" ELSE Lower(hits[1])

FlexReadMethod(read_method_raw) ==
  CASE read_method_raw = "obd" -> "Normal Read-OBD"
    [] read_method_raw = "bench" -> "Bench"
    [] read_method_raw = "boot" -> "Boot"
    [] OTHER -> ""

\* the parts after the brand: ECU brand (if recognized), ECU type, the rest
FlexEcu(remaining) ==
  IF remaining # << >> /\ Lower(remaining[1]) \in FLEX_ECU_BRANDS
  THEN [ecu_brand |-> Capitalize(remaining[1]),
        ecu_type |-> IF Len(remaining) > 1 THEN Upper(remaining[2]) ELSE "",
        remaining |-> IF Len(remaining) > 1 THEN SubSeq(remaining, 3, Len(remaining)) ELSE << >>]
  ELSE [ecu_brand |-> "",
        ecu_type |-> IF remaining # << >> THEN Upper(remaining[1]) ELSE "",
        remaining |-> IF remaining # << >> THEN Tail(remaining) ELSE << >>]

\* parse_flex_filename from the brand on
FlexFields(parsed, meta_parts, e) ==
  [parsed EXCEPT
     !.make = IF Lower(meta_parts[1]) \in DOMAIN FLEX_BRANDS
              THEN FLEX_BRANDS[Lower(meta_parts[1])]
              ELSE Capitalize(Lower(meta_parts[1])),
     !.ecu = Strip(e.ecu_brand \o " " \o e.ecu_type),
     !.read_method = FlexReadMethod(FlexReadMethodRaw(e.remaining))]

FlexDate(parts, today) ==
  IF TimestampIdx(parts) >= 0 THEN Slice(parts[TimestampIdx(parts) + 1], 0, 8) ELSE today

parse_flex_filename(filename, today) ==
  LET parts == Split(StripBin(filename), "-")
  IN  FlexFields(NewParsed(FlexDate(parts, today)), MetaParts(parts),
                 FlexEcu(Tail(MetaParts(parts))))

HasEcuBrand(part) == \E k \in 1..Len(ECU_BRANDS) : Contains(ECU_BRANDS[k], part)

\* the lists before the loop over the parts that follow the make
AutotunerStart == [model_parts |-> << >>, ecu_parts |-> << >>, found_ecu |-> FALSE]

\* the loop without the marker test: every part before the ECU goes to the model
AutotunerStepKeepsMarkers(acc, part) ==
  IF part = "" THEN acc
  ELSE IF HasEcuBrand(part)
       THEN [acc EXCEPT !.found_ecu = TRUE, !.ecu_parts = Append(@, part)]
  ELSE IF acc.found_ecu
       THEN [acc EXCEPT !.ecu_parts = Append(@, part)]
  ELSE [acc EXCEPT !.model_parts = Append(@, part)]

\* the loop with found_ecu following the current part alone
AutotunerStepNoLatch(acc, part) ==
  IF part = "" THEN acc
  ELSE IF HasEcuBrand(part)
       THEN [acc EXCEPT !.found_ecu = TRUE, !.ecu_parts = Append(@, part)]
  ELSE IF ~\E x \in {"OBD", "BENCH", "BOOT", "NR", "OR", "hp", "ps", "kW"} : Contains(x, part)
       THEN [acc EXCEPT !.found_ecu = FALSE, !.model_parts = Append(@, part)]
  ELSE [acc EXCEPT !.found_ecu = FALSE]

\* one iteration of the loop: an empty part is skipped, a part that contains an
\* ECU brand goes to ecu_parts and sets found_ecu, after that every part goes
\* to ecu_parts, before that a part without a marker goes to model_parts
AutotunerStep(acc, part) ==
  IF part = "" THEN acc
  ELSE IF HasEcuBrand(part)
       THEN [acc EXCEPT !.found_ecu = TRUE, !.ecu_parts = Append(@, part)]
  ELSE IF acc.found_ecu
       THEN [acc EXCEPT !.ecu_parts = Append(@, part)]
  ELSE IF ~\E x \in {"OBD", "BENCH", "BOOT", "NR", "OR", "hp", "ps", "kW"} : Contains(x, part)
       THEN [acc EXCEPT !.model_parts = Append(@, part)]
  ELSE acc

\* model_parts and ecu_parts after the first n of the parts that follow the make
RECURSIVE AutotunerParts(_, _)
AutotunerParts(rest, n) ==
  IF n = 0 THEN AutotunerStart
  ELSE AutotunerStep(AutotunerParts(rest, n - 1), rest[n])

\* the read method with BOOT tested before BENCH
AutotunerReadMethodBootFirst(name_upper) ==
  IF Contains("BOOT", name_upper) THEN "Boot"
  ELSE IF Contains("BENCH", name_upper) THEN "Bench"
  ELSE IF Contains("OBD", name_upper)
       THEN IF Contains("VIRTUAL", name_upper) \/ Contains("VR", name_upper)
            THEN "Virtual Read-OBD" ELSE "Normal Read-OBD"
  ELSE ""

\* Detect read method from filename
AutotunerReadMethod(name_upper) ==
  IF Contains("BENCH", name_upper) THEN "Bench"
  ELSE IF Contains("BOOT", name_upper) THEN "Boot"
  ELSE IF Contains("OBD", name_upper)
       THEN IF Contains("VIRTUAL", name_upper) \/ Contains("VR", name_upper)
            THEN "Virtual Read-OBD" ELSE "Normal Read-OBD"
  ELSE ""

AutotunerFields(parsed, parts, sorted, name) ==
  [parsed EXCEPT
     !.make = parts[1],
     !.model = Join(sorted.model_parts),
     !.ecu = Strip(Replace(Join(sorted.ecu_parts), "  ", " ")),
     !.read_method = AutotunerReadMethod(Upper(name))]

parse_filename(filename, today) ==
  LET parts == Split(StripBin(filename), "_")
  IN  IF is_flex_filename(filename) THEN parse_flex_filename(filename, today)
      ELSE AutotunerFields(NewParsed(today), parts,
                           AutotunerParts(Tail(parts), Len(parts) - 1), StripBin(filename))

\* Add empty BIN metadata fields as defaults
BinDefaults ==
  [sw_version |-> "", bosch_sw_number |-> "", oem_hw_number |-> "",
   oem_sw_number |-> "", engine_code |-> "", engine_type |-> ""]

\* the assignments from bin_meta without the ECU override
MergeKeepsFilenameEcu(parsed, bin_meta) ==
  [k \in DOMAIN parsed |->
     IF k \in DOMAIN BinDefaults
     THEN IF k \in DOMAIN bin_meta THEN bin_meta[k] ELSE ""
     ELSE parsed[k]]

\* the assignments from bin_meta (bin_meta.get(key, '')), the ECU override last
MergeBinMeta(parsed, bin_meta) ==
  [k \in DOMAIN parsed |->
     IF k \in DOMAIN BinDefaults
     THEN IF k \in DOMAIN bin_meta THEN bin_meta[k] ELSE ""
     ELSE IF k = "ecu" /\ "ecu_type" \in DOMAIN bin_meta /\ bin_meta["ecu_type"] # ""
     THEN bin_meta["ecu_type"]
     ELSE parsed[k]]


\* ------------------------------------------------------ the desktop program
\* os.path.dirname(path)
dirname(path) ==
  IF Find(path, "/") < 0 THEN ""
  ELSE SubSeq(path, 1, Len(path) - Len(basename(path)) - 1)

\* os.path.splitext(filename): the extension starts at the last dot, a dot
\* that leads the name does not count
splitext(filename) ==
  LET dots == {i \in 2..Len(filename) : Ch(filename, i) = "."}
      last == CHOOSE i \in dots : \A j \in dots : j <= i
  IN  IF dots = {} THEN <<filename, "">>
      ELSE <<SubSeq(filename, 1, last - 1), SubSeq(filename, last, Len(filename))>>

\* what datetime.now().strftime("%Y-%m-%d %H:%M:%S") can give: two seconds,
\* each of which can be read more than once
Clock == {"2026-11-02 10:00:00", "2026-11-02 10:00:01"}

\* datetime.now().strftime("%H%M%S") at the same moment
HHMMSS(now) == SubSeq(now, 12, 13) \o SubSeq(now, 15, 16) \o SubSeq(now, 18, 19)

\* ---- monitor.py
\* the names that can lie in the monitored folder
MonitorNames == {"a.bin", "B.BIN", "notes.txt"}

\* f.lower().endswith('.bin')
IsBin(f) == EndsWith(Lower(f), ".bin")

\* the size of a name that is not in the folder: os.path.getsize raises OSError
Absent == -1

EmptyFolder == [exists |-> TRUE, size |-> [f \in MonitorNames |-> Absent]]

\* the orders os.listdir can list the names of S in
RECURSIVE Listings(_)
Listings(S) ==
  IF S = {} THEN {<< >>}
  ELSE UNION {{<<f>> \o l : l \in Listings(S \ {f})} : f \in S}

\* [f for f in os.listdir(self.monitor_folder) if f.lower().endswith('.bin')]
BinListings(folder) ==
  Listings({f \in MonitorNames : folder.size[f] # Absent /\ IsBin(f)})

\* FileMonitor.__init__: running, processed_files; the thread is not started
\* (at = "new"); files, file and size1 are the locals of run, file_detected the
\* paths the instance has emitted
NewFileMonitor ==
  [at |-> "new", running |-> TRUE, processed_files |-> {}, files |-> << >>,
   file |-> "", size1 |-> Absent, file_detected |-> << >>]

\* no FileMonitor yet: the window has no attribute monitor_thread
NoFileMonitor == [NewFileMonitor EXCEPT !.at = "none", !.running = FALSE]

\* QThread.isRunning(): started and run() has not returned
isRunning(thread) == thread.at \notin {"none", "new", "finished"}

\* ---- form_dialog.py
destination_base == "ECU_files"

\* what the user can have in the fields of the form: no make, no model, a
\* car without and with its registration
Forms ==
  {[make |-> make, model |-> model, date |-> "20261102", ecu |-> "EDC17 C46",
    read_method |-> "Normal Read-OBD", mileage |-> "", registration |-> registration] :
     <<make, model, registration>> \in
       {<<"", " A4", "">>, <<"Audi", "", "AB12">>, <<"Audi", " A4", "">>,
        <<"Audi", " A4", "AB12">>}}

\* the fields as save_file reads them
Fields7(form) ==
  [make |-> Strip(form.make),
   model |-> Replace(Strip(form.model), " ", "_"),
   date |-> Strip(form.date),
   ecu |-> Replace(Strip(form.ecu), " ", "_"),
   read_method |-> form.read_method,
   mileage |-> Strip(form.mileage),
   registration |-> Replace(Strip(form.registration), " ", "_")]

\* Shorten read method for folder name
read_method_short(read_method) ==
  Replace(Replace(read_method, "Normal Read-", ""), "Virtual Read-", "Virtual")

\* Build destination path
FolderName(f) ==
  f.make \o "_" \o f.model \o "_" \o f.date \o "_" \o f.ecu \o "_"
    \o read_method_short(f.read_method)
    \o (IF f.mileage # "" THEN "_" \o f.mileage \o "km" ELSE "")
    \o (IF f.registration # "" THEN "_" \o f.registration ELSE "")

NewFolder(f) == destination_base \o "/" \o f.make \o "/" \o FolderName(f)

\* a folder of an earlier visit of the car with registration AB12
OldFolder == destination_base \o "/Audi/Audi_A3_20250101_EDC16_Bench_AB12"

FolderPaths ==
  {NewFolder(Fields7(form)) : form \in {fm \in Forms : fm.make # "" /\ fm.model # ""}}
    \cup {OldFolder}

\* the file the dialog was opened for
SourcePath == "in/x.bin"

\* the names save_file can store the file under
DestNames ==
  {basename(SourcePath)}
    \cup {splitext(basename(SourcePath))[1] \o "_" \o HHMMSS(now)
            \o splitext(basename(SourcePath))[2] : now \in Clock}

\* a folder that does not exist; files maps a name to the number of the file
\* stored under it (0: no such file), log lists the entries of Log.txt
NoFolder == [exists |-> FALSE, files |-> [n \in DestNames |-> 0], log |-> << >>]

\* check_existing_folders: the folders under the destination whose name ends
\* with _<registration> (their order shows in the dialog text only)
check_existing_folders(tree, registration) ==
  IF registration = "" THEN {}
  ELSE LET registration_clean == Replace(Strip(registration), " ", "_")
       IN  {d \in DOMAIN tree :
              tree[d].exists /\ EndsWith(basename(d), "_" \o registration_clean)}

\* what show_duplicate_dialog can return
show_duplicate_dialog(existing_folders) ==
  {[choice |-> "existing", folder_path |-> d] : d \in existing_folders}
    \cup {[choice |-> "new", folder_path |-> ""], [choice |-> "cancel", folder_path |-> ""]}

\* no folder with the registration: no dialog, the flow of 'new'
NoDuplicate == [choice |-> "new", folder_path |-> ""]

\* the name the file is stored under: the source's name, with the time of day
\* appended when a file of that name is in the folder
DestFilename(files, filename, now) ==
  LET base_ext == splitext(filename)
  IN  IF files[filename] # 0
      THEN base_ext[1] \o "_" \o HHMMSS(now) \o base_ext[2]
      ELSE filename

\* ---- main_window.py
RecentLimit == 20

\* Create recent file entry
RecentEntry(dest_path, now) ==
  LET folder_path == dirname(dest_path)
  IN  [folder_path |-> folder_path,
       folder_name |-> basename(folder_path),
       filename |-> basename(dest_path),
       make |-> basename(dirname(folder_path)),
       timestamp |-> now]

\* the new entry appended, the last 20 kept
AddToRecentFilesAtEnd(recent_files, dest_path, now) ==
  LET all == Append(recent_files, RecentEntry(dest_path, now))
  IN  SubSeq(all, Max(1, Len(all) - RecentLimit + 1), Len(all))

\* recent_files.insert(0, recent_entry); recent_files = recent_files[:20]
add_to_recent_files(recent_files, dest_path, now) ==
  LET all == <<RecentEntry(dest_path, now)>> \o recent_files
  IN  SubSeq(all, 1, Min(RecentLimit, Len(all)))

\* the folder save_file stores the file in
DestFolder(f, pick) ==
  IF pick.choice = "existing" THEN pick.folder_path ELSE NewFolder(f)

\* shutil.move and what follows it, on st, the record of what save_file
\* touches (the destination tree, the dialog, the emissions of file_saved and
\* the window's list of recent files): the file is stored under dest name n in
\* folder d, whatever is stored there; the log entry is written unless the
\* write fails; file_saved is emitted, its slot on_file_saved adds the path to
\* the recent files, and the dialog closes
MoveAndEmit(st, d, n, now, log_ok) ==
  [tree |-> [st.tree EXCEPT ![d] =
               [exists |-> TRUE,
                files |-> [st.tree[d].files EXCEPT ![n] = st.dialog.content],
                log |-> IF log_ok THEN Append(st.tree[d].log, n) ELSE st.tree[d].log]],
   dialog |-> [st.dialog EXCEPT !.open = FALSE, !.source_exists = FALSE,
                                !.outcome = "saved"],
   file_saved |-> Append(st.file_saved, d \o "/" \o n),
   recent_files |-> add_to_recent_files(st.recent_files, d \o "/" \o n, now)]

\* save_file from os.makedirs on
SaveInto(st, d, now, makedirs_ok, log_ok) ==
  IF ~st.tree[d].exists /\ ~makedirs_ok
  THEN [st EXCEPT !.dialog.outcome = "error"]
  ELSE IF ~st.dialog.source_exists
  THEN [st EXCEPT !.tree[d].exists = TRUE, !.dialog.outcome = "error"]
  ELSE MoveAndEmit(st, d, DestFilename(st.tree[d].files, basename(st.dialog.file_path), now),
                   now, log_ok)

\* save_file with the destination folder made before the fields are validated
\* and the duplicate dialog is answered
SaveFileFolderFirst(st, f, pick, now, makedirs_ok, log_ok) ==
  IF f.make = "" \/ f.model = ""
  THEN [st EXCEPT !.dialog.outcome = "warning"]
  ELSE IF pick.choice = "cancel"
  THEN [st EXCEPT !.tree[NewFolder(f)].exists = TRUE, !.dialog.outcome = "cancel"]
  ELSE SaveInto(st, DestFolder(f, pick), now, makedirs_ok, log_ok)

\* save_file on the fields f it has read: the validation, the answer of the
\* duplicate dialog, then the move
save_file(st, f, pick, now, makedirs_ok, log_ok) ==
  IF f.make = "" \/ f.model = ""
  THEN [st EXCEPT !.dialog.outcome = "warning"]
  ELSE IF pick.choice = "cancel"
  THEN [st EXCEPT !.dialog.outcome = "cancel"]
  ELSE SaveInto(st, DestFolder(f, pick), now, makedirs_ok, log_ok)

\* no dialog is open
NoDialog ==
  [open |-> FALSE, file_path |-> SourcePath, content |-> 0, source_exists |-> FALSE,
   outcome |-> ""]

\* the entries the settings file holds from earlier sessions, newest first
OldEntry(k) ==
  RecentEntry(OldFolder \o "/old" \o <<"0", "1", "2">>[(k \div 10) + 1]
                \o <<"0", "1", "2", "3", "4", "5", "6", "7", "8", "9">>[(k % 10) + 1] \o ".bin",
              "2026-11-01 09:00:00")

OldEntries(n) == [k \in 1..n |-> OldEntry(k)]
\* ------------------------------------------------------------ the program
VARIABLES
  catalog,    \* which pattern catalogue constants.py provides
  entry,      \* the function the caller calls: "read_bin_metadata", "parse_bin_file",
              \* "parse_filename" or, on the content of the file alone,
              \* "_find_sw_version"
  file_path,  \* the path the caller passes
  call,       \* the file at file_path and its content
  today,      \* what datetime.now().strftime('%Y%m%d') gives during the call
  pc,         \* where read_bin_metadata is: "idle", "call", the extractor to run next,
              \* "returned", "raised"; "find" and "found" around a lone _find_sw_version
  result,     \* the result dictionary of read_bin_metadata
  exc,        \* the exception that escaped, "" when none
  ran,        \* the extractors run so far in this call
  fallback,   \* what _find_sw_version returned in this call, << >> when not called
  run,        \* how many times read_bin_metadata has been called on the file
  first,      \* how the first call ended
  ppc,        \* where parse_bin_file is: "idle", "call", "reading", "returned", "raised";
              \* "parse" and "parsed" around a lone parse_filename
  parsed,     \* the dictionary of parse_bin_file, << >> before the call
  part_idx,   \* how many of the parts after the make the Autotuner loop has seen
  model_parts, \* the parts the loop has taken for the model
  ecu_parts,  \* the parts the loop has taken for the ECU
  found_ecu,  \* whether the loop has met a part that contains an ECU brand
  folder,     \* the monitored folder: whether it exists, the size of each name in it
  monitor_thread, \* the FileMonitor the window refers to
  orphaned,   \* the FileMonitor threads still running that the window no longer refers to
  window,     \* where the main window is: "unbuilt", "idle" (in the event loop),
              \* "waiting" (in stop_monitoring, in QThread.wait), "quit"
  tree,       \* the folders under the destination base and the files in them
  dialog,     \* the form dialog: open or not, its source file, how save_file ended
  file_saved, \* the paths emitted with the signal file_saved
  recent_files \* settings['recent_files']

inputs == <<catalog, entry, file_path, call, today>>
loop == <<part_idx, model_parts, ecu_parts, found_ecu>>
monitoring == <<folder, monitor_thread, orphaned, window>>
saving == <<tree, dialog, file_saved, recent_files>>
env == <<inputs, loop, monitoring, saving>>
reading == <<pc, result, exc, ran, fallback, run, first, ppc, parsed>>
vars == <<env, reading>>

\* the desktop side before the window is built
NoDesktop ==
  /\ folder = EmptyFolder
  /\ monitor_thread = NoFileMonitor
  /\ orphaned = 0
  /\ window = [at |-> "unbuilt", after |-> ""]
  /\ tree = [d \in FolderPaths |-> NoFolder]
  /\ dialog = NoDialog
  /\ file_saved = << >>
  /\ recent_files = << >>

\* the buffers of at most n tokens of T
RECURSIVE Buffers(_, _)
Buffers(T, n) ==
  IF n = 0 THEN {<< >>}
  ELSE Buffers(T, n - 1) \cup {Append(d, Item(t)) : d \in Buffers(T, n - 1), t \in T}

\* a path names no file, a file that open() refuses, or a file with its content
Files(T, n) ==
  {[kind |-> "missing", data |-> << >>], [kind |-> "unreadable", data |-> << >>]}
    \cup {[kind |-> "file", data |-> d] : d \in Buffers(T, n)}

\* the buffers of at most n of the items I
RECURSIVE ItemSeqs(_, _)
ItemSeqs(I, n) ==
  IF n = 0 THEN {<< >>}
  ELSE ItemSeqs(I, n - 1) \cup {Append(d, i) : d \in ItemSeqs(I, n - 1), i \in I}

\* Buffers whose tokens lie thousands of bytes apart, for the window of
\* _find_sw_version: an OEM number, the same bytes inside a longer token, and
\* digit runs.  After the 11 bytes of an OEM number at offset p, the longer gap
\* puts the next token at p + 4092, so that data[:p + 4096] ends after its
\* fourth byte.
AnchorTokens ==
  {"X03L906018AE", "03L906018AE", "1396AB", "03L906018AE 5000 00123 0999 1396"}

Gaps == {1, WindowAfter - Len("03L906018AE") - 4}

AnchorItems == {[b |-> t, pad |-> g] : t \in AnchorTokens, g \in Gaps}

AnchorBuffers == ItemSeqs(AnchorItems, MaxAnchorItems)

\* Buffers of OEM numbers with and without the markers 907 and 906, beside a
\* Ford part number, a Continental calibration ID and a Delphi CRD string
OemTokens ==
  {"03L907309AE", "03L906018AE", "03L997016A", "04L997555B",
   "RK3A-12A650-AB", "SID307 CAFR1B00", "CRD2-651-TMABDD11-639A4X-100kW"}

EdgeFiles ==
  {[kind |-> "file", data |-> d] : d \in AnchorBuffers \cup Buffers(OemTokens, MaxOemTokens)}

\* the tokens of the files handed to parse_bin_file
ParseTokens ==
  {"hello", "38/1/EDC17_C50/11/1396//VHKL0/", "CRD2-651-TMABDD11-639A4X-100kW",
   "03L906018AE R4 2.0l TDI  CFFB"}

\* the paths handed to parse_bin_file (read_bin_metadata is handed in/firmware.bin)
Paths ==
  {"in/Audi_A4_2.0TDI_Bosch_EDC17C46_OBD.bin",
   "in/Ford_Focus_BENCH.BIN",
   "in/psa-bosch-md1cs003-bench-20260205122803.bin",
   "in/20260204104420-delphi-dcm3.5-obd.bin",
   "in/BMW_320d_Bosch_EDC17.ori"}

\* the filenames handed to parse_filename alone: at most MaxNameParts parts,
\* separated by dashes or by underscores, with or without the extension
NameParts == {"fomoco", "Delphi", "obd", "Bench", "20260204104420", "Audi"}

RECURSIVE PartSeqs(_)
PartSeqs(n) ==
  IF n = 0 THEN {<< >>}
  ELSE PartSeqs(n - 1) \cup {Append(ps, part) : ps \in PartSeqs(n - 1), part \in NameParts}

\* sep.join(parts)
RECURSIVE JoinWith(_, _)
JoinWith(parts, sep) ==
  IF parts = << >> THEN ""
  ELSE IF Len(parts) = 1 THEN parts[1]
  ELSE parts[1] \o sep \o JoinWith(Tail(parts), sep)

Filenames ==
  {JoinWith(ps, sep) \o ext : ps \in PartSeqs(MaxNameParts) \ {<< >>},
                              sep \in {"-", "_"}, ext \in {".bin", ""}}

\* Autotuner names: a make and at most MaxAutotunerParts parts, among them
\* empty parts, ECU brands, read-method and unit markers
AutotunerTokens == {"", "A4", "OBD", "BOOT", "BENCH", "VR6", "Virtual", "EDC17", "150hp"}

RECURSIVE TokenSeqs(_, _)
TokenSeqs(T, n) ==
  IF n = 0 THEN {<< >>}
  ELSE TokenSeqs(T, n - 1) \cup {Append(ps, t) : ps \in TokenSeqs(T, n - 1), t \in T}

AutotunerNames ==
  {JoinWith(<<"Audi">> \o ps, "_") \o ".bin" : ps \in TokenSeqs(AutotunerTokens, MaxAutotunerParts)}

\* what datetime.now().strftime('%Y%m%d') can give
Dates == {"20260204", "20261102"}

\* os.path.isfile(file_path)
isfile(f) == f.kind # "missing"

Init ==
  /\ catalog \in Catalogs
  /\ entry \in {"read_bin_metadata", "parse_bin_file", "parse_filename", "_find_sw_version"}
  /\ today \in IF entry \in {"parse_bin_file", "parse_filename"} THEN Dates ELSE {"20261102"}
  /\ entry = "parse_filename" => catalog = "src"
  /\ CASE entry = "read_bin_metadata" ->
            /\ file_path = "in/firmware.bin"
            /\ call \in Files(Tokens, MaxTokens) \cup EdgeFiles
            /\ pc = "call"
            /\ ppc = "idle"
       [] entry = "parse_filename" ->
            /\ file_path \in Filenames \cup AutotunerNames
            /\ file_path \notin Filenames => today = "20261102"
            /\ call = [kind |-> "missing", data |-> << >>]
            /\ pc = "idle"
            /\ ppc = "parse"
       [] entry = "parse_bin_file" ->
            /\ file_path \in Paths
            /\ call \in Files(ParseTokens, MaxParseTokens)
            /\ pc = "idle"
            /\ ppc = "call"
       [] entry = "_find_sw_version" ->
            /\ file_path = "in/firmware.bin"
            /\ call \in {[kind |-> "file", data |-> d] : d \in Buffers(Tokens, MaxTokens)}
                         \cup EdgeFiles
            /\ pc = "find"
            /\ ppc = "idle"
  /\ result = EmptyResult
  /\ exc = ""
  /\ ran = << >>
  /\ fallback = << >>
  /\ run = 1
  /\ first = << >>
  /\ parsed = << >>
  /\ part_idx = 0
  /\ model_parts = << >>
  /\ ecu_parts = << >>
  /\ found_ecu = FALSE
  /\ NoDesktop

\* Open without the return on a zero-length file: the extractors run on it
OpenWithoutEmptyCheck ==
  /\ pc = "call"
  /\ result' = EmptyResult
  /\ pc' = IF call.kind # "file" THEN "returned" ELSE "bosch"
  /\ ran' = << >>
  /\ fallback' = << >>
  /\ exc' = ""
  /\ UNCHANGED <<env, run, first, ppc, parsed>>

\* Open without the fresh record: the call starts from the record the call
\* before it left
OpenKeepsRecord ==
  /\ pc = "call"
  /\ result' = result
  /\ pc' = IF call.kind # "file" THEN "returned"
           ELSE IF Len(call.data) = 0 THEN "returned"
           ELSE "bosch"
  /\ ran' = << >>
  /\ fallback' = << >>
  /\ exc' = ""
  /\ UNCHANGED <<env, run, first, ppc, parsed>>

\* read_bin_metadata up to the first extractor: the fresh record, the read of
\* the file and the two early returns
Open ==
  /\ pc = "call"
  /\ result' = EmptyResult
  /\ pc' = IF call.kind # "file" THEN "returned"
           ELSE IF Len(call.data) = 0 THEN "returned"
           ELSE "bosch"
  /\ ran' = << >>
  /\ fallback' = << >>
  /\ exc' = ""
  /\ UNCHANGED <<env, run, first, ppc, parsed>>

\* one extractor of the chain, and where the chain goes next
Extract(name, out, next) ==
  /\ pc = name
  /\ result' = out.result
  /\ exc' = out.exc
  /\ pc' = IF out.exc = "" THEN next ELSE "raised"
  /\ ran' = Append(ran, name)
  /\ fallback' = out.fallback
  /\ UNCHANGED <<env, run, first, ppc, parsed>>

Bosch ==
  Extract("bosch", _extract_bosch(Patterns(catalog).BOSCH, call.data, result), "ford")

Ford ==
  Extract("ford", _extract_ford(Patterns(catalog).FORD, call.data, result), "continental")

Continental ==
  Extract("continental",
          _extract_continental(Patterns(catalog).CONTINENTAL, call.data, result), "delphi")

Delphi ==
  Extract("delphi", _extract_delphi(Patterns(catalog).DELPHI, call.data, result), "delco")

Delco ==
  Extract("delco", _extract_delco(Patterns(catalog).DELCO, call.data, result), "transtron")

Transtron ==
  Extract("transtron",
          _extract_transtron(Patterns(catalog).TRANSTRON, call.data, result), "bmw")

Bmw ==
  Extract("bmw", _extract_bmw(Patterns(catalog).BMW, call.data, result), "mercedes")

Mercedes ==
  Extract("mercedes",
          _extract_mercedes(Patterns(catalog).MERCEDES, call.data, result), "generic")

Generic ==
  Extract("generic",
          _extract_generic(Patterns(catalog).GENERIC, Patterns(catalog).DELPHI.hw_part,
                           call.data, result),
          "returned")

\* _find_sw_version alone, with the OEM matches _extract_generic passes to it
FindSwVersion ==
  /\ pc = "find"
  /\ fallback' = <<_find_sw_version(call.data,
                                    findall(Patterns(catalog).GENERIC.oem_number, call.data))>>
  /\ pc' = "found"
  /\ UNCHANGED <<env, result, exc, ran, run, first, ppc, parsed>>

\* the caller calls read_bin_metadata on the same file once more
CallAgain ==
  /\ entry = "read_bin_metadata"
  /\ pc \in {"returned", "raised"}
  /\ run < MaxRuns
  /\ first' = <<[pc |-> pc, result |-> result, exc |-> exc]>>
  /\ run' = run + 1
  /\ pc' = "call"
  /\ UNCHANGED <<env, result, exc, ran, fallback, ppc, parsed>>

\* parse_bin_file up to the call of read_bin_metadata: the filename fields, the
\* empty defaults, and the test that decides whether the binary is read
ParseBinFile ==
  /\ ppc = "call"
  /\ parsed' = parse_filename(basename(file_path), today) @@ BinDefaults
  /\ IF EndsWith(Lower(file_path), ".bin") /\ isfile(call)
     THEN ppc' = "reading" /\ pc' = "call"
     ELSE ppc' = "returned" /\ pc' = pc
  /\ UNCHANGED <<env, result, exc, ran, fallback, run, first>>

\* the parts of the Autotuner reading of the name: name.split('_')
NameSplit == Split(StripBin(file_path), "_")

\* parse_filename alone, on a filename: a Flex name is handed to
\* parse_flex_filename, any other name enters the Autotuner loop with its first
\* part as the make
ParseFilename ==
  /\ ppc = "parse"
  /\ IF is_flex_filename(file_path)
     THEN /\ parsed' = parse_flex_filename(file_path, today)
          /\ ppc' = "parsed"
     ELSE /\ parsed' = [NewParsed(today) EXCEPT !.make = NameSplit[1]]
          /\ ppc' = "autotuner"
  /\ part_idx' = 0
  /\ model_parts' = AutotunerStart.model_parts
  /\ ecu_parts' = AutotunerStart.ecu_parts
  /\ found_ecu' = AutotunerStart.found_ecu
  /\ UNCHANGED <<inputs, monitoring, saving, pc, result, exc, ran, fallback, run, first>>

\* one iteration of the Autotuner loop, on the next part after the make
AutotunerToken ==
  /\ ppc = "autotuner"
  /\ part_idx < Len(NameSplit) - 1
  /\ LET acc == AutotunerStep([model_parts |-> model_parts, ecu_parts |-> ecu_parts,
                               found_ecu |-> found_ecu], NameSplit[part_idx + 2])
     IN  /\ model_parts' = acc.model_parts
         /\ ecu_parts' = acc.ecu_parts
         /\ found_ecu' = acc.found_ecu
  /\ part_idx' = part_idx + 1
  /\ UNCHANGED <<inputs, monitoring, saving, pc, result, exc, ran, fallback, run, first, ppc, parsed>>

\* the parts are exhausted: model, ecu and read method are written and the
\* dictionary is returned
AutotunerEnd ==
  /\ ppc = "autotuner"
  /\ part_idx = Len(NameSplit) - 1
  /\ parsed' = AutotunerFields(parsed, NameSplit,
                               [model_parts |-> model_parts, ecu_parts |-> ecu_parts,
                                found_ecu |-> found_ecu], StripBin(file_path))
  /\ ppc' = "parsed"
  /\ UNCHANGED <<env, pc, result, exc, ran, fallback, run, first>>

\* read_bin_metadata returned: parse_bin_file copies the fields and returns
ParseBinFileMerge ==
  /\ ppc = "reading"
  /\ pc = "returned"
  /\ parsed' = MergeBinMeta(parsed, result)
  /\ ppc' = "returned"
  /\ UNCHANGED <<env, pc, result, exc, ran, fallback, run, first>>

\* read_bin_metadata raised: nothing in parse_bin_file catches the exception
ParseBinFileRaise ==
  /\ ppc = "reading"
  /\ pc = "raised"
  /\ ppc' = "raised"
  /\ UNCHANGED <<env, pc, result, exc, ran, fallback, run, first, parsed>>

Next ==
  \/ Open
  \/ Bosch
  \/ Ford
  \/ Continental
  \/ Delphi
  \/ Delco
  \/ Transtron
  \/ Bmw
  \/ Mercedes
  \/ Generic
  \/ FindSwVersion
  \/ CallAgain
  \/ ParseFilename
  \/ AutotunerToken
  \/ AutotunerEnd
  \/ ParseBinFile
  \/ ParseBinFileMerge
  \/ ParseBinFileRaise

Spec == Init /\ [][Next]_vars


\* ------------------------------------------------------------------ properties
\* the extractors in the order read_bin_metadata runs them
Chain ==
  <<"bosch", "ford", "continental", "delphi", "delco", "transtron", "bmw",
    "mercedes", "generic">>

\* the extractors that run before name
Earlier(name) == {Chain[i] : i \in {j \in 1..Len(Chain) : \E k \in (j + 1)..Len(Chain) : Chain[k] = name}}

\* the fields each extractor can assign a value to (Delphi's clearing of
\* bosch_sw_number, bosch_variant and oem_hw_number assigns none)
CanWrite ==
  [bosch |-> {"bosch_sw_number", "bosch_variant", "ecu_type", "sw_version", "oem_hw_number"},
   ford |-> {"oem_sw_number", "oem_hw_number", "sw_version", "bosch_sw_number"},
   continental |-> {"ecu_type", "sw_version", "oem_sw_number"},
   delphi |-> {"ecu_type", "sw_version", "engine_code", "engine_type"},
   delco |-> {"oem_hw_number", "oem_sw_number"},
   transtron |-> {"engine_code", "oem_sw_number"},
   bmw |-> {"engine_code"},
   mercedes |-> {"oem_hw_number", "oem_sw_number"},
   generic |-> {"oem_hw_number", "oem_sw_number", "engine_type", "engine_code", "sw_version"}]

\* C1: every call of read_bin_metadata ends by returning a record; no
\* exception escapes, whatever the file and whatever matched.
NoExceptionEscapes == pc # "raised"

\* C2: on a missing or unreadable path and on a zero-length file
\* read_bin_metadata runs no extractor, raises nothing, and the record it
\* returns has all eight fields empty.
EmptyInputGivesEmptyRecord ==
  (entry = "read_bin_metadata" /\ (call.kind # "file" \/ call.data = << >>))
    => /\ pc \in {"call", "returned"}
       /\ ran = << >>
       /\ (pc = "returned" => result = EmptyResult)

\* a zero-length file: read_bin_metadata has returned
EmptyFileReturned ==
  /\ entry = "read_bin_metadata"
  /\ call.kind = "file"
  /\ call.data = << >>
  /\ pc = "returned"

\* C3: priority invariant.  An extractor B that returns leaves every field F
\* unchanged that was non-empty when B started and that B and an extractor
\* before B can both write.
PriorityInvariant ==
  [][\A F \in Fields :
       (/\ pc \in DOMAIN CanWrite
        /\ exc' = ""
        /\ F \in CanWrite[pc]
        /\ \E A \in Earlier(pc) : F \in CanWrite[A]
        /\ result[F] # "")
         => result'[F] = result[F]]_vars

\* C4: brand-specific results take precedence over the Generic extractor.
\* Every field that is non-empty when the Generic extractor starts holds the
\* same value when it returns.
BrandBeatsGeneric ==
  [][(pc = "generic" /\ exc' = "")
       => \A F \in Fields : result[F] # "" => result'[F] = result[F]]_vars

\* the buffer holds a Bosch software number and a Delphi CRD signature whose
\* last match decodes
BoschAndCrd ==
  /\ search(Patterns(catalog).BOSCH.sw_number, call.data) # << >>
  /\ finditer(Patterns(catalog).DELPHI.crd, call.data) # << >>
  /\ \A k \in 1..3 : IsAscii(finditer(Patterns(catalog).DELPHI.crd, call.data)[
                               Len(finditer(Patterns(catalog).DELPHI.crd, call.data))].g[k])

\* the last CRD match of the buffer
LastCrd ==
  finditer(Patterns(catalog).DELPHI.crd, call.data)[
    Len(finditer(Patterns(catalog).DELPHI.crd, call.data))]

\* the record as Bosch, Ford and Continental leave it to Delphi
BeforeDelphi ==
  _extract_continental(Patterns(catalog).CONTINENTAL, call.data,
    _extract_ford(Patterns(catalog).FORD, call.data,
      _extract_bosch(Patterns(catalog).BOSCH, call.data, EmptyResult).result).result).result

\* C5 as stated: with a Bosch software number and a CRD signature in the
\* buffer, the returned record has bosch_sw_number and bosch_variant empty and
\* ecu_type and sw_version are the ECU and software parts of the CRD match.
RetractionTakesCrdValues ==
  (entry = "read_bin_metadata" /\ pc = "returned" /\ BoschAndCrd)
    => /\ result["bosch_sw_number"] = ""
       /\ result["bosch_variant"] = ""
       /\ result["ecu_type"] = LastCrd.g[1]
       /\ result["sw_version"] = LastCrd.g[3]

\* C5, amended: with a Bosch software number and a CRD signature in the
\* buffer, the returned record has bosch_sw_number and bosch_variant empty;
\* ecu_type and sw_version are those of the last CRD match only where Bosch,
\* Ford and Continental left the field empty, and otherwise keep the value
\* those extractors wrote.
RetractionKeepsEarlierValues ==
  (entry = "read_bin_metadata" /\ pc = "returned" /\ BoschAndCrd)
    => /\ result["bosch_sw_number"] = ""
       /\ result["bosch_variant"] = ""
       /\ result["ecu_type"] = IF BeforeDelphi["ecu_type"] = "" THEN LastCrd.g[1]
                               ELSE BeforeDelphi["ecu_type"]
       /\ result["sw_version"] = IF BeforeDelphi["sw_version"] = "" THEN LastCrd.g[3]
                                 ELSE BeforeDelphi["sw_version"]

\* a Bosch software number was found and retracted; ecu_type kept the value
\* Bosch wrote and sw_version, empty until then, took the CRD match's
BoschRetracted ==
  /\ entry = "read_bin_metadata"
  /\ pc = "returned"
  /\ BoschAndCrd
  /\ BeforeDelphi["bosch_sw_number"] # ""
  /\ result["bosch_sw_number"] = ""
  /\ BeforeDelphi["ecu_type"] # ""
  /\ result["ecu_type"] = BeforeDelphi["ecu_type"]
  /\ result["ecu_type"] # LastCrd.g[1]
  /\ BeforeDelphi["sw_version"] = ""
  /\ result["sw_version"] = LastCrd.g[3]

\* C6: every record read_bin_metadata returns has exactly the eight public
\* keys; the Delphi flag is not among them.
ReturnedRecordHasPublicKeys == pc = "returned" => DOMAIN result = Fields

\* the Delphi extractor set the flag, and the record was returned
FlaggedRunReturned ==
  /\ pc = "returned"
  /\ Len(ran) = Len(Chain)
  /\ finditer(Patterns(catalog).DELPHI.crd, call.data) # << >>

\* C7: determinism.  A second call of read_bin_metadata on the same file ends
\* as the call before it did: the same record, or the same exception.
SecondCallAgrees ==
  (run >= 2 /\ pc \in {"returned", "raised"})
    => first = <<[pc |-> pc, result |-> result, exc |-> exc]>>

\* a second call returned a record with a field filled
SecondCallReturned == run = 2 /\ pc = "returned" /\ result # EmptyResult

WindowTokens ==
  LET oem == findall(Patterns(catalog).GENERIC.oem_number, call.data)
  IN  IF oem = << >> THEN << >>
      ELSE RegionCandidates(call.data,
                            Max(0, DataFind(call.data, oem[1]) - 2048),
                            Min(DataLen(call.data), DataFind(call.data, oem[1]) + 4096), 1)

\* val is no substring of a found OEM number, has no leading zero, is no
\* multiple of 1000 and is not below 1000
Survives(val) ==
  /\ ~\E k \in 1..Len(findall(Patterns(catalog).GENERIC.oem_number, call.data)) :
        Contains(val, findall(Patterns(catalog).GENERIC.oem_number, call.data)[k])
  /\ Ch(val, 1) # "0"
  /\ ToInt(val) % 1000 # 0
  /\ ToInt(val) >= 1000

\* C9: _find_sw_version returns the first token of the window, in scan order,
\* that survives, and the empty string when none does; with 5000, 00123, 0999
\* and 1396 in the window it returns 1396.
FallbackSelection ==
  fallback # << >>
    => /\ \/ fallback[1] = "" /\ \A k \in 1..Len(WindowTokens) : ~Survives(WindowTokens[k])
          \/ \E k \in 1..Len(WindowTokens) :
               /\ fallback[1] = WindowTokens[k]
               /\ Survives(WindowTokens[k])
               /\ \A j \in 1..(k - 1) : ~Survives(WindowTokens[j])
       /\ call.data = <<Item("03L906018AE 5000 00123 0999 1396")>> => fallback = <<"1396">>

\* _find_sw_version passed over 5000, 00123 and 0999 and returned 1396
FallbackChose1396 ==
  /\ entry = "_find_sw_version"
  /\ pc = "found"
  /\ WindowTokens = <<"5000", "00123", "0999", "1396">>
  /\ fallback = <<"1396">>

\* the ecu parse_filename derives from the name of file_path
FilenameEcu == parse_filename(basename(file_path), CHOOSE d \in Dates : TRUE).ecu

\* C10: parse_bin_file reads the binary only when the path ends in .bin (any
\* case) and names an existing file; then the returned ecu is the binary's
\* ecu_type when that is non-empty and the filename's ecu otherwise, and the
\* six binary fields are the binary's.  When the binary is not read the ecu is
\* the filename's and the six binary fields are empty.
ParseBinFileMerges ==
  ppc = "returned"
    => IF EndsWith(Lower(file_path), ".bin") /\ call.kind # "missing"
       THEN /\ pc = "returned"
            /\ parsed.ecu = IF result["ecu_type"] # "" THEN result["ecu_type"] ELSE FilenameEcu
            /\ \A k \in DOMAIN BinDefaults : parsed[k] = result[k]
       ELSE /\ pc = "idle"
            /\ parsed.ecu = FilenameEcu
            /\ \A k \in DOMAIN BinDefaults : parsed[k] = ""

\* the binary's ecu_type replaced a different ecu found in the filename
BinaryEcuOverrode ==
  /\ ppc = "returned"
  /\ result["ecu_type"] # ""
  /\ FilenameEcu # ""
  /\ FilenameEcu # result["ecu_type"]
  /\ parsed.ecu = result["ecu_type"]


\* ------------------------------------------------------- filename properties
\* the dash-separated parts of the name handed to parse_filename
DashParts == Split(StripBin(file_path), "-")

\* the positions (1-based) of the 14-digit parts that start with 20
Stamps == {i \in 1..Len(DashParts) : IsTimestamp(DashParts[i])}

FirstStamp == CHOOSE i \in Stamps : \A j \in Stamps : i <= j

\* at least 4 dash-separated parts, and the first a Flex brand key or the
\* second an ECU-brand key, whatever the case of the letters
FlexRule ==
  /\ Len(DashParts) >= 4
  /\ \/ Lower(DashParts[1]) \in DOMAIN FLEX_BRANDS
     \/ Lower(DashParts[2]) \in FLEX_ECU_BRANDS

ParsedKeys ==
  {"make", "model", "engine", "ecu", "date", "mileage", "registration", "read_method"}

\* C11: parse_filename returns, for every filename, a record with exactly the
\* keys make, model, engine, ecu, date, mileage, registration, read_method;
\* its date is the first 8 digits of the first timestamp part when the name is
\* a Flex name that has one, and the current date otherwise.
ParseFilenameSucceeds ==
  ppc = "parsed"
    => /\ DOMAIN parsed = ParsedKeys
       /\ parsed.date = IF FlexRule /\ Stamps # {}
                        THEN Slice(DashParts[FirstStamp], 0, 8) ELSE today

\* an underscore name that holds a timestamp got the current date
UnderscoreNameGotToday ==
  /\ ppc = "parsed"
  /\ file_path = "Audi_obd_20260204104420.bin"
  /\ today = "20261102"
  /\ parsed.date = "20261102"
  /\ parsed.make = "Audi"

\* the Autotuner reading of the name handed to parse_filename
AutotunerReading ==
  LET parts == Split(StripBin(file_path), "_")
  IN  AutotunerFields(NewParsed(today), parts,
                      AutotunerParts(Tail(parts), Len(parts) - 1), StripBin(file_path))

\* C12: is_flex_filename is true exactly when the name without its extension
\* has at least 4 dash-separated parts and its first part is a Flex brand key
\* or its second part an ECU-brand key (case-insensitive); it is false for a
\* name with an underscore and no dash; parse_filename reads the name with
\* the Flex grammar when is_flex_filename is true and with the Autotuner
\* grammar otherwise.
GrammarDetection ==
  ppc = "parsed"
    => /\ is_flex_filename(file_path) <=> FlexRule
       /\ (Contains("_", file_path) /\ ~Contains("-", file_path))
            => ~is_flex_filename(file_path)
       /\ parsed = IF FlexRule THEN parse_flex_filename(file_path, today)
                   ELSE AutotunerReading

\* a name whose first part is no brand was read as Flex for the ECU brand in
\* its second part
FlexBySecondPart ==
  /\ ppc = "parsed"
  /\ file_path = "obd-Delphi-Audi-fomoco.bin"
  /\ parsed.make = "Obd"
  /\ parsed.ecu = "Delphi AUDI"

\* ------------------------------------------------------ extractor properties
\* the first match of the Bosch firmware version path, << >> when there is none
PathMatch == search(Patterns(catalog).BOSCH.path, call.data)

\* the path matched, and one of the three spans it decodes is not plain ASCII
PathUndecodable ==
  /\ PathMatch # << >>
  /\ ~(IsAscii(PathMatch[1].g[2]) /\ IsAscii(PathMatch[1].g[4]) /\ IsAscii(PathMatch[1].g[5]))

\* what the other blocks of the Bosch extractor write when the path block
\* writes nothing
BoschBesidesPath ==
  BoschHwNumber(Patterns(catalog).BOSCH, call.data,
    Bosch10sw(Patterns(catalog).BOSCH, call.data,
      BoschEcuType(Patterns(catalog).BOSCH, call.data,
        BoschSwNumber(Patterns(catalog).BOSCH, call.data,
          BoschSwVariant(Patterns(catalog).BOSCH, call.data, result)))))

\* C13: when a span captured by the Bosch version path is not plain ASCII, the
\* extractor writes no field from that match, no exception leaves it, the
\* patterns after it (10SW, hardware number) are still applied and the next
\* extractor runs on the same buffer.
DecodeFailureIsLocal ==
  [][(pc = "bosch" /\ PathUndecodable)
       => /\ exc' = ""
          /\ pc' = "ford"
          /\ call' = call
          /\ result' = BoschBesidesPath]_vars

\* the path with a non-ASCII byte gave no version and no ECU type, and the
\* 10SW pattern after it still filled the Bosch software number
UndecodablePathSkipped ==
  /\ pc = "ford"
  /\ call.data = <<Item("38/1/EDC17~C50/11/1396//VHKL0/"), Item("10SW017935")>>
  /\ result["sw_version"] = ""
  /\ result["ecu_type"] = ""
  /\ result["bosch_sw_number"] = "10SW017935"

\* C17: the Bosch extractor takes sw_version from the version path only when
\* the path's variant consists of digits; a variant with any other character
\* (P_1320) never becomes sw_version, while the same match still fills
\* ecu_type and bosch_sw_number.
PathVersionDigitsOnly ==
  [][pc = "bosch"
       => /\ result'["sw_version"] # ""
            => /\ PathMatch # << >>
               /\ IsDigit(PathMatch[1].g[4])
               /\ result'["sw_version"] = PathMatch[1].g[4]
          /\ (PathMatch # << >> /\ ~PathUndecodable /\ ~IsDigit(PathMatch[1].g[4]))
            => /\ result'["sw_version"] = ""
               /\ result'["ecu_type"] # ""
               /\ PathMatch[1].g[5] # "" => result'["bosch_sw_number"] # ""]_vars

\* the path with the project code P_1320 filled the ECU type and the Bosch
\* software number and left the version empty
ProjectCodeNotVersion ==
  /\ pc = "ford"
  /\ call.data = <<Item("38/1/EDC17_C50/11/P_1320//VHKL0/")>>
  /\ result["sw_version"] = ""
  /\ result["ecu_type"] = "EDC17_C50"
  /\ result["bosch_sw_number"] = "VHKL0"

\* the file holds neither a Delphi CRD string nor a DELIV identifier
NoDelphiSignature ==
  /\ finditer(Patterns(catalog).DELPHI.crd, call.data) = << >>
  /\ finditer(Patterns(catalog).DELPHI.deliv, call.data) = << >>

\* C18: the Mercedes extractor changes no field of the record unless the
\* Delphi extractor set the Delphi flag earlier in the run; on a file without
\* a Delphi signature the flag is not set, so no A-number reaches oem_hw_number
\* or oem_sw_number.
MercedesGated ==
  [][(pc = "mercedes" /\ (~GetFlag(result) \/ NoDelphiSignature))
       => /\ result' = result
          /\ ~GetFlag(result)]_vars

\* the Mercedes extractor ran on a file with an A-number and no Delphi
\* signature and left the hardware number empty
MercedesSkippedANumber ==
  /\ pc = "generic"
  /\ ~GetFlag(result)
  /\ findall(Patterns(catalog).MERCEDES.part_number, call.data) = <<"A6511501879">>
  /\ result["oem_hw_number"] = ""

\* the Ford part numbers of software class, in file order
FordSw ==
  SelectSeq(findall(Patterns(catalog).FORD.part_number, call.data),
            LAMBDA val : IsAscii(val) /\ ~FordIsHw(val))

\* the Ford extractor has run in this call
FordRan == \E k \in 1..Len(ran) : ran[k] = "ford"

\* sw_version as the Bosch extractor leaves it for the Ford extractor
VersionBeforeFord ==
  _extract_bosch(Patterns(catalog).BOSCH, call.data, EmptyResult).result["sw_version"]

\* C19: when the buffer holds a Ford part number of software class and
\* sw_version is empty as the Ford extractor starts, sw_version is the first
\* such part number from then on and in the returned record, also when a
\* Continental calibration ID matches in the buffer.
FordBeatsContinental ==
  (FordRan /\ FordSw # << >> /\ VersionBeforeFord = "")
    => result["sw_version"] = FordSw[1]

\* a call returned the Ford part number as sw_version from a file in which the
\* Continental calibration ID matches too
FordVersionReturned ==
  /\ pc = "returned"
  /\ catalog = "src"
  /\ search(Patterns(catalog).CONTINENTAL.cal_id, call.data) # << >>
  /\ FordSw = <<"RK3A-12A650-AB">>
  /\ result["sw_version"] = "RK3A-12A650-AB"

\* -------------------------------------------------------- fallback properties
\* the matches of the generic OEM-number pattern, in file order
OemMatches == finditer(Patterns(catalog).GENERIC.oem_number, call.data)

\* the OEM numbers that decode, as _find_sw_version collects them
OemStrings == {OemMatches[k].g[1] : k \in {j \in 1..Len(OemMatches) : IsAscii(OemMatches[j].g[1])}}

\* C14: the window of the version fallback is anchored at the start offset p
\* of the first match of the OEM-number pattern: what _find_sw_version returns
\* is what the scan of bytes [max(0, p - 2048), min(len, p + 4096)) gives, also
\* when the bytes of that OEM number occur earlier inside a longer token.
WindowAnchoredAtFirstMatch ==
  (fallback # << >> /\ OemMatches # << >>)
    => fallback[1] = VersionNear(call.data, OemMatches[1].at, OemStrings)

\* the isolated 4 and 5 digit tokens of the whole file
FileVersionTokens == RegionCandidates(call.data, 0, DataLen(call.data), 1)

\* C15: a version the fallback locator returns is an isolated 4 or 5 digit
\* token of the file, not adjacent to a digit or letter in the full buffer.
VersionIsIsolatedToken ==
  (fallback # << >> /\ fallback[1] # "")
    => \E k \in 1..Len(FileVersionTokens) : FileVersionTokens[k] = fallback[1]

\* ------------------------------------------- OEM-number classification
\* the OEM numbers the generic extractor classifies, in file order
OemVals == SelectSeq(findall(Patterns(catalog).GENERIC.oem_number, call.data), IsAscii)

Marked907(i) == Contains("907", OemVals[i])
Marked906(i) == ~Marked907(i) /\ Contains("906", OemVals[i])
Unmarked(i) == ~Contains("907", OemVals[i]) /\ ~Contains("906", OemVals[i])

\* the positions of the first and of the second candidate without marker
UnmarkedAt(n) ==
  {i \in 1..Len(OemVals) :
     Unmarked(i) /\ Cardinality({j \in 1..(i - 1) : Unmarked(j)}) = n - 1}

Least(S) == CHOOSE i \in S : \A j \in S : i <= j

\* field f was empty and the generic extractor gave it the first candidate of
\* the positions in role, and no candidate when role is empty
ReceivesFirstOf(f, role) ==
  result[f] = ""
    => IF role # {} THEN result'[f] = OemVals[Least(role)]
       ELSE \A i \in 1..Len(OemVals) : result'[f] # OemVals[i]

\* C16 as stated: a candidate with 907 has the hardware role, one with 906 the
\* software role; of the candidates with neither marker the first has the
\* hardware role and the second the software role, whatever precedes them; an
\* unfilled oem_hw_number / oem_sw_number receives the first candidate of its
\* role.
OemRolesByPosition ==
  [][(pc = "generic" /\ pc' = "returned")
       => /\ ReceivesFirstOf("oem_hw_number",
                             {i \in 1..Len(OemVals) : Marked907(i)} \cup UnmarkedAt(1))
          /\ ReceivesFirstOf("oem_sw_number",
                             {i \in 1..Len(OemVals) : Marked906(i)} \cup UnmarkedAt(2))]_vars

\* the candidates before position i that take the hardware role
HardwareBefore(i) == {j \in 1..(i - 1) : ~Marked906(j)}

\* C16: a candidate with 907 has the hardware role, one with 906 the software
\* role; a candidate with neither marker takes the hardware role when no
\* earlier candidate has it, else the software role when no earlier candidate
\* has it, else no role, so that after a 907 candidate the first candidate
\* without marker is the software candidate; an unfilled oem_hw_number /
\* oem_sw_number receives the first candidate of its role.
OemRolesFillEmptySlots ==
  [][(pc = "generic" /\ pc' = "returned")
       => /\ ReceivesFirstOf("oem_hw_number", {i \in 1..Len(OemVals) : ~Marked906(i)})
          /\ ReceivesFirstOf("oem_sw_number",
                             {i \in 1..Len(OemVals) :
                                Marked906(i) \/ (Unmarked(i) /\ HardwareBefore(i) # {})})]_vars

\* after a 907 candidate, the first candidate without marker became the
\* software number
UnmarkedTookSoftwareRole ==
  /\ pc = "returned"
  /\ catalog = "src"
  /\ OemVals = <<"03L907309AE", "03L997016A">>
  /\ result["oem_hw_number"] = "03L907309AE"
  /\ result["oem_sw_number"] = "03L997016A"

\* ------------------------------------------------------------ Flex timestamp
\* the parts before the first timestamp part
PartsBeforeStamp == SubSeq(DashParts, 1, FirstStamp - 1)

\* C20: in a Flex name with a 14-digit part that starts with 20, date is the
\* first 8 digits of the first such part and make, ecu and read_method are
\* derived from the parts before it alone, at every position of that part,
\* the first included (no part before it: the three fields stay empty).
FlexTimestampRegion ==
  (ppc = "parsed" /\ FlexRule /\ Stamps # {})
    => /\ parsed.date = Slice(DashParts[FirstStamp], 0, 8)
       /\ parsed = IF PartsBeforeStamp = << >> THEN NewParsed(parsed.date)
                   ELSE FlexFields(NewParsed(parsed.date), PartsBeforeStamp,
                                   FlexEcu(Tail(PartsBeforeStamp)))

\* ------------------------------------------------ filename grammar properties
\* the metadata region of a Flex name: the parts before its first timestamp
\* part, every part when it has none
MetadataRegion == IF Stamps # {} THEN PartsBeforeStamp ELSE DashParts

FlexLabel(part) ==
  CASE Lower(part) = "obd" -> "Normal Read-OBD"
    [] Lower(part) = "bench" -> "Bench"
    [] Lower(part) = "boot" -> "Boot"
    [] OTHER -> ""

\* the label of the first part of seq that names a read method, "" without one
FirstLabel(seq) ==
  IF \E i \in 1..Len(seq) : FlexLabel(seq[i]) # ""
  THEN FlexLabel(seq[CHOOSE i \in 1..Len(seq) :
                       /\ FlexLabel(seq[i]) # ""
                       /\ \A j \in 1..(i - 1) : FlexLabel(seq[j]) = ""])
  ELSE ""

\* the parts the Flex parser searches for a read method: its metadata parts
\* without the brand, the ECU brand when the part after the brand is one, and
\* the ECU type
FlagParts ==
  LET meta == MetaParts(DashParts)
      taken == IF Len(meta) >= 2 /\ Lower(meta[2]) \in FLEX_ECU_BRANDS THEN 3 ELSE 2
  IN  SubSeq(meta, taken + 1, Len(meta))

Rest == Tail(NameSplit)

\* the position in Rest of the first part that contains an ECU brand,
\* Len(Rest) + 1 when no part does
FirstEcu ==
  IF \E k \in 1..Len(Rest) : HasEcuBrand(Rest[k])
  THEN CHOOSE k \in 1..Len(Rest) :
         HasEcuBrand(Rest[k]) /\ \A j \in 1..(k - 1) : ~HasEcuBrand(Rest[j])
  ELSE Len(Rest) + 1

NonEmpty(seq) == SelectSeq(seq, LAMBDA part : part # "")

\* in the loop: the state is ACCUMULATING_ECU exactly from the first part with
\* an ECU brand on, ecu_parts holds every non-empty part seen from that part
\* on, and model_parts holds parts from before it only
AutotunerOrder ==
  ppc = "autotuner"
    => /\ found_ecu <=> FirstEcu <= part_idx
       /\ ecu_parts = NonEmpty(SubSeq(Rest, FirstEcu, part_idx))
       /\ \A m \in 1..Len(model_parts) :
            \E k \in 1..Min(part_idx, FirstEcu - 1) : Rest[k] = model_parts[m]

\* one iteration: found_ecu is never reset, it is set by a part that contains
\* an ECU brand and by nothing else, and once it is set model_parts is frozen
\* and every non-empty part is appended to ecu_parts
AutotunerTransition ==
  (ppc = "autotuner" /\ ppc' = "autotuner")
    => LET part == Rest[part_idx + 1]
       IN  /\ found_ecu => found_ecu'
           /\ found_ecu' <=> (found_ecu \/ HasEcuBrand(part))
           /\ found_ecu' => model_parts' = model_parts
           /\ (found_ecu' /\ part # "") => ecu_parts' = Append(ecu_parts, part)
           /\ ~found_ecu' => ecu_parts' = ecu_parts

\* C22: the Autotuner loop starts with found_ecu false (ACCUMULATING_MODEL),
\* sets it at the first part that contains a known ECU brand
\* (ACCUMULATING_ECU) and never resets it; every part taken for the model
\* precedes every part taken for the ECU, and every non-empty part from the
\* first ECU-brand part onward is appended to the ECU parts.
AutotunerStateMachine ==
  /\ [](ppc = "parse" => ~found_ecu)
  /\ []AutotunerOrder
  /\ [][((ppc = "parse" /\ ppc' = "autotuner") => ~found_ecu') /\ AutotunerTransition]_vars

\* a part without an ECU brand, after the first part with one, went to the ECU
AutotunerEcuTookLaterParts ==
  /\ ppc = "parsed"
  /\ file_path = "Audi_A4_EDC17_OBD.bin"
  /\ found_ecu
  /\ model_parts = <<"A4">>
  /\ ecu_parts = <<"EDC17", "OBD">>
  /\ parsed.model = "A4"
  /\ parsed.ecu = "EDC17 OBD"

Markers == {"OBD", "BENCH", "BOOT", "NR", "OR", "hp", "ps", "kW"}

HasMarker(part) == \E x \in Markers : Contains(x, part)

NameUpper == Upper(StripBin(file_path))

\* C24: in an Autotuner name with U the uppercased name, read_method is Bench
\* if U contains BENCH, else Boot if U contains BOOT, else, if U contains OBD,
\* Virtual Read-OBD when U contains VIRTUAL or VR and Normal Read-OBD
\* otherwise, else empty; it is always empty or one of the four labels of
\* READ_METHODS.
AutotunerReadMethodRule ==
  (ppc = "parsed" /\ ~FlexRule)
    => /\ parsed.read_method =
            CASE Contains("BENCH", NameUpper) -> READ_METHODS[3]
              [] ~Contains("BENCH", NameUpper) /\ Contains("BOOT", NameUpper) -> READ_METHODS[4]
              [] /\ ~Contains("BENCH", NameUpper) /\ ~Contains("BOOT", NameUpper)
                 /\ Contains("OBD", NameUpper)
                 /\ (Contains("VIRTUAL", NameUpper) \/ Contains("VR", NameUpper))
                   -> READ_METHODS[2]
              [] /\ ~Contains("BENCH", NameUpper) /\ ~Contains("BOOT", NameUpper)
                 /\ Contains("OBD", NameUpper)
                 /\ ~Contains("VIRTUAL", NameUpper) /\ ~Contains("VR", NameUpper)
                   -> READ_METHODS[1]
              [] OTHER -> ""
       /\ parsed.read_method \in {""} \cup {READ_METHODS[k] : k \in 1..Len(READ_METHODS)}

\* BENCH won over BOOT and OBD, whatever their order in the name
BenchBeatsBootAndObd ==
  /\ ppc = "parsed"
  /\ file_path = "Audi_OBD_BOOT_BENCH.bin"
  /\ parsed.read_method = "Bench"

\* ------------------------------------------------------- the Delphi extractor
CrdMatches == finditer(Patterns(catalog).DELPHI.crd, call.data)

DelivMatches == finditer(Patterns(catalog).DELPHI.deliv, call.data)

\* the three groups of the last CRD match decode
CrdDecodes == \A k \in 1..3 : IsAscii(CrdMatches[Len(CrdMatches)].g[k])

\* sw_version as the CRD step leaves it, given the record it starts from
SwVersionAfterCrd ==
  IF CrdMatches # << >> /\ CrdDecodes /\ result["sw_version"] = ""
  THEN CrdMatches[Len(CrdMatches)].g[3]
  ELSE result["sw_version"]

Retractable == {"bosch_sw_number", "bosch_variant", "oem_hw_number"}

\* C25: _extract_delphi sets the Delphi flag exactly when a CRD signature
\* matches, or when sw_version is still empty after the CRD step and a DELIV
\* identifier matches; it clears bosch_sw_number, bosch_variant and
\* oem_hw_number on the CRD branch and nowhere else, so a file flagged through
\* DELIV alone keeps the Bosch and hardware values found earlier.
DelphiFlagAndRetraction ==
  [][pc = "delphi"
       => /\ GetFlag(result') <=>
               (CrdMatches # << >> \/ (SwVersionAfterCrd = "" /\ DelivMatches # << >>))
          /\ CrdMatches = << >> => \A F \in Retractable : result'[F] = result[F]
          /\ (CrdMatches # << >> /\ CrdDecodes) => \A F \in Retractable : result'[F] = ""]_vars

\* a file without a CRD signature was flagged by its DELIV identifier and
\* kept the Bosch software number found earlier
FlaggedByDelivKeptBosch ==
  /\ "delphi" \in {ran[k] : k \in 1..Len(ran)}
  /\ pc \in {"delco", "raised"}
  /\ CrdMatches = << >>
  /\ DelivMatches # << >>
  /\ GetFlag(result)
  /\ result["bosch_sw_number"] # ""
  /\ result["sw_version"] = DelivMatches[Len(DelivMatches)].g[1]

\* ------------------------------------------------ the desktop program, steps
monitor_folder == "in"

\* the folder as the tool and the user can find it: notes.txt lies in it
StartFolder == [EmptyFolder EXCEPT !.size["notes.txt"] = 0]

\* the destination tree, with or without the folder of the earlier visit
StartTrees ==
  {[d \in FolderPaths |-> IF d = OldFolder /\ old THEN [NoFolder EXCEPT !.exists = TRUE]
                          ELSE NoFolder] : old \in BOOLEAN}

\* the state after the program is started: the window is not built yet, no
\* dialog is open, the settings file holds the recent files of earlier sessions
DesktopInit ==
  /\ catalog = "src"
  /\ entry \in {"MainWindow", "save_file", "add_to_recent_files"}
  /\ file_path = ""
  /\ call = [kind |-> "missing", data |-> << >>]
  /\ today = "20261102"
  /\ pc = "idle"
  /\ ppc = "idle"
  /\ result = EmptyResult
  /\ exc = ""
  /\ ran = << >>
  /\ fallback = << >>
  /\ run = 1
  /\ first = << >>
  /\ parsed = << >>
  /\ part_idx = 0
  /\ model_parts = << >>
  /\ ecu_parts = << >>
  /\ found_ecu = FALSE
  /\ folder = StartFolder
  /\ monitor_thread = NoFileMonitor
  /\ orphaned = 0
  /\ window = [at |-> "unbuilt", after |-> ""]
  /\ tree \in IF entry = "save_file" THEN StartTrees ELSE {[d \in FolderPaths |-> NoFolder]}
  /\ dialog = NoDialog
  /\ file_saved = << >>
  /\ recent_files \in IF entry = "add_to_recent_files"
                      THEN {OldEntries(n) : n \in 0..RecentLimit} ELSE {<< >>}

\* ---- the monitored folder: the tool writes a file, the user removes one
FileWritten ==
  /\ entry = "MainWindow"
  /\ folder.exists
  /\ \E f \in {n \in MonitorNames : IsBin(n)} :
       /\ folder.size[f] < MaxSize
       /\ folder' = [folder EXCEPT !.size[f] = @ + 1]
  /\ UNCHANGED <<inputs, loop, reading, saving, monitor_thread, orphaned, window>>

FileRemoved ==
  /\ entry = "MainWindow"
  /\ \E f \in {n \in MonitorNames : IsBin(n)} :
       /\ folder.size[f] # Absent
       /\ folder' = [folder EXCEPT !.size[f] = Absent]
  /\ UNCHANGED <<inputs, loop, reading, saving, monitor_thread, orphaned, window>>

FolderRemoved ==
  /\ entry = "MainWindow"
  /\ folder.exists
  /\ folder' = [exists |-> FALSE, size |-> [f \in MonitorNames |-> Absent]]
  /\ UNCHANGED <<inputs, loop, reading, saving, monitor_thread, orphaned, window>>

FolderCreated ==
  /\ entry = "MainWindow"
  /\ ~folder.exists
  /\ folder' = StartFolder
  /\ UNCHANGED <<inputs, loop, reading, saving, monitor_thread, orphaned, window>>

\* ---- FileMonitor.run
\* while self.running: if the folder exists, list its .bin files
MonitorWhile ==
  /\ monitor_thread.at = "while"
  /\ IF ~monitor_thread.running
     THEN monitor_thread' = [monitor_thread EXCEPT !.at = "finished"]
     ELSE IF ~folder.exists
     THEN monitor_thread' = [monitor_thread EXCEPT !.at = "sleep"]
     ELSE \E files \in BinListings(folder) :
            monitor_thread' = [monitor_thread EXCEPT !.at = "for", !.files = files]
  /\ UNCHANGED <<inputs, loop, reading, saving, folder, orphaned, window>>

\* for file in files: a processed path is passed over; size1 is read, and the
\* file is passed over when getsize raises
MonitorFor ==
  /\ monitor_thread.at = "for"
  /\ IF monitor_thread.files = << >>
     THEN monitor_thread' = [monitor_thread EXCEPT !.at = "sleep"]
     ELSE IF \/ monitor_folder \o "/" \o Head(monitor_thread.files)
                  \in monitor_thread.processed_files
             \/ folder.size[Head(monitor_thread.files)] = Absent
     THEN monitor_thread' = [monitor_thread EXCEPT !.files = Tail(@)]
     ELSE monitor_thread' = [monitor_thread EXCEPT
                               !.at = "msleep",
                               !.file = Head(monitor_thread.files),
                               !.size1 = folder.size[Head(monitor_thread.files)]]
  /\ UNCHANGED <<inputs, loop, reading, saving, folder, orphaned, window>>

\* the second reading without the mark in processed_files
MonitorSize2NoMark ==
  /\ monitor_thread.at = "msleep"
  /\ IF folder.size[monitor_thread.file] = monitor_thread.size1
     THEN monitor_thread' =
            [monitor_thread EXCEPT
               !.at = "for", !.files = Tail(@), !.file = "", !.size1 = Absent,
               !.file_detected = Append(@, monitor_folder \o "/" \o monitor_thread.file)]
     ELSE monitor_thread' =
            [monitor_thread EXCEPT !.at = "for", !.files = Tail(@), !.file = "",
                                   !.size1 = Absent]
  /\ UNCHANGED <<inputs, loop, reading, saving, folder, orphaned, window>>

\* after msleep(500): size2 is read; when it equals size1 the path is added to
\* processed_files and emitted; when it differs, or getsize raises, nothing
MonitorSize2 ==
  /\ monitor_thread.at = "msleep"
  /\ IF folder.size[monitor_thread.file] = monitor_thread.size1
     THEN monitor_thread' =
            [monitor_thread EXCEPT
               !.at = "for", !.files = Tail(@), !.file = "", !.size1 = Absent,
               !.processed_files = @ \cup {monitor_folder \o "/" \o monitor_thread.file},
               !.file_detected = Append(@, monitor_folder \o "/" \o monitor_thread.file)]
     ELSE monitor_thread' =
            [monitor_thread EXCEPT !.at = "for", !.files = Tail(@), !.file = "",
                                   !.size1 = Absent]
  /\ UNCHANGED <<inputs, loop, reading, saving, folder, orphaned, window>>

\* self.msleep(2000)
MonitorSleep ==
  /\ monitor_thread.at = "sleep"
  /\ monitor_thread' = [monitor_thread EXCEPT !.at = "while"]
  /\ UNCHANGED <<inputs, loop, reading, saving, folder, orphaned, window>>

MonitorRun == MonitorWhile \/ MonitorFor \/ MonitorSize2 \/ MonitorSleep

\* ---- the main window
\* start_monitoring: a new FileMonitor replaces the one the window refers to
\* and is started; a thread that is replaced while it runs runs on
start_monitoring ==
  /\ isRunning(monitor_thread) => orphaned < MaxOrphaned
  /\ monitor_thread' = [NewFileMonitor EXCEPT !.at = "while"]
  /\ orphaned' = orphaned + (IF isRunning(monitor_thread) THEN 1 ELSE 0)

\* stop_monitoring up to its wait: stop() on the thread, if there is one
stop_monitoring(after) ==
  /\ monitor_thread' = IF monitor_thread.at # "none"
                       THEN [monitor_thread EXCEPT !.running = FALSE] ELSE monitor_thread
  /\ window' = [at |-> "waiting", after |-> after]
  /\ UNCHANGED orphaned

\* MainWindow.__init__
Construct ==
  /\ entry = "MainWindow"
  /\ window.at = "unbuilt"
  /\ start_monitoring
  /\ window' = [at |-> "idle", after |-> ""]
  /\ UNCHANGED <<inputs, loop, reading, saving, folder>>

\* toggle_monitoring without the test of isRunning: it always starts
ToggleAlwaysStarts ==
  /\ window.at = "idle"
  /\ start_monitoring
  /\ UNCHANGED window
  /\ UNCHANGED <<inputs, loop, reading, saving, folder>>

ToggleMonitoring ==
  /\ window.at = "idle"
  /\ IF isRunning(monitor_thread)
     THEN stop_monitoring("")
     ELSE start_monitoring /\ UNCHANGED window
  /\ UNCHANGED <<inputs, loop, reading, saving, folder>>

\* browse_monitor_folder with a folder chosen while the monitor runs: stop,
\* then start (with no folder chosen, or no monitor running, it starts and
\* stops nothing)
BrowseMonitorFolder ==
  /\ window.at = "idle"
  /\ isRunning(monitor_thread)
  /\ stop_monitoring("start")
  /\ UNCHANGED <<inputs, loop, reading, saving, folder>>

StopMonitoring ==
  /\ window.at = "idle"
  /\ stop_monitoring("")
  /\ UNCHANGED <<inputs, loop, reading, saving, folder>>

QuitApplication ==
  /\ window.at = "idle"
  /\ stop_monitoring("quit")
  /\ UNCHANGED <<inputs, loop, reading, saving, folder>>

\* QThread.wait returns, and with it stop_monitoring; its caller goes on
StopMonitoringReturn ==
  /\ window.at = "waiting"
  /\ ~isRunning(monitor_thread)
  /\ CASE window.after = "start" ->
            /\ start_monitoring
            /\ window' = [at |-> "idle", after |-> ""]
       [] window.after = "quit" ->
            /\ window' = [at |-> "quit", after |-> ""]
            /\ UNCHANGED <<monitor_thread, orphaned>>
       [] OTHER ->
            /\ window' = [at |-> "idle", after |-> ""]
            /\ UNCHANGED <<monitor_thread, orphaned>>
  /\ UNCHANGED <<inputs, loop, reading, saving, folder>>

\* ---- the form dialog
\* show_file_form: a dialog for the next file the tool has written to SourcePath
ShowFileForm ==
  /\ entry = "save_file"
  /\ ~dialog.open
  /\ dialog.content < MaxSaves
  /\ dialog' = [open |-> TRUE, file_path |-> SourcePath, content |-> dialog.content + 1,
                source_exists |-> TRUE, outcome |-> ""]
  /\ UNCHANGED <<inputs, loop, reading, monitoring, tree, file_saved, recent_files>>

\* the user removes the source file while the dialog is open
SourceRemoved ==
  /\ dialog.open
  /\ dialog.source_exists
  /\ dialog' = [dialog EXCEPT !.source_exists = FALSE]
  /\ UNCHANGED <<inputs, loop, reading, monitoring, tree, file_saved, recent_files>>

\* the Save button: the fields are read, then save_file runs on them
SaveFile ==
  /\ dialog.open
  /\ \E form \in Forms : \E f \in {Fields7(form)} :
       \E existing_folders \in {check_existing_folders(tree, f.registration)} :
         \E pick \in IF existing_folders = {} THEN {NoDuplicate}
                     ELSE show_duplicate_dialog(existing_folders) :
           \E now \in Clock, ok \in {<<TRUE, TRUE>>, <<FALSE, TRUE>>, <<TRUE, FALSE>>} :
             \E st \in {save_file([tree |-> tree, dialog |-> dialog,
                                    file_saved |-> file_saved,
                                    recent_files |-> recent_files],
                                   f, pick, now, ok[1], ok[2])} :
               /\ tree' = st.tree
               /\ dialog' = st.dialog
               /\ file_saved' = st.file_saved
               /\ recent_files' = st.recent_files
  /\ UNCHANGED <<inputs, loop, reading, monitoring>>

\* the Cancel button
Reject ==
  /\ dialog.open
  /\ dialog' = [dialog EXCEPT !.open = FALSE]
  /\ UNCHANGED <<inputs, loop, reading, monitoring, tree, file_saved, recent_files>>

\* ---- the recent files
DestPaths == {d \o "/" \o basename(SourcePath) : d \in FolderPaths}

\* on_file_saved, the slot of file_saved, on a path a dialog emitted
OnFileSaved ==
  /\ entry = "add_to_recent_files"
  /\ Len(file_saved) < MaxAdds
  /\ \E dest_path \in DestPaths, now \in Clock :
       /\ file_saved' = Append(file_saved, dest_path)
       /\ recent_files' = add_to_recent_files(recent_files, dest_path, now)
  /\ UNCHANGED <<inputs, loop, reading, monitoring, tree, dialog>>

\* the window, its monitor thread and the monitored folder
MonitorInit == DesktopInit /\ entry = "MainWindow"

MonitorNext ==
  \/ FileWritten
  \/ FileRemoved
  \/ FolderRemoved
  \/ FolderCreated
  \/ MonitorWhile
  \/ MonitorFor
  \/ MonitorSize2
  \/ MonitorSleep
  \/ Construct
  \/ ToggleMonitoring
  \/ BrowseMonitorFolder
  \/ StopMonitoring
  \/ QuitApplication
  \/ StopMonitoringReturn

\* the operating system schedules the monitor thread, and msleep returns
MonitorSpec == MonitorInit /\ [][MonitorNext]_vars /\ WF_vars(MonitorRun)

\* the form dialogs, the destination tree and the recent files
SaveInit == DesktopInit /\ entry \in {"save_file", "add_to_recent_files"}

SaveNext ==
  \/ ShowFileForm
  \/ SourceRemoved
  \/ SaveFile
  \/ Reject
  \/ OnFileSaved

SaveSpec == SaveInit /\ [][SaveNext]_vars

\* ------------------------------------------------- desktop program properties
BinNames == {n \in MonitorNames : IsBin(n)}

\* the paths the FileMonitor has emitted
Detected == {monitor_thread.file_detected[k] : k \in 1..Len(monitor_thread.file_detected)}

\* no path is emitted twice, every emitted path is a .bin name (in any case)
\* of the monitored folder and is marked processed
DetectedOnce ==
  /\ Cardinality(Detected) = Len(monitor_thread.file_detected)
  /\ Detected \subseteq {monitor_folder \o "/" \o f : f \in BinNames}
  /\ Detected = monitor_thread.processed_files

\* a step that emits: it is the step of the second size reading, the two
\* readings are equal, and the path emitted is the path of the file in hand,
\* not emitted before
EmitsAfterEqualSizes ==
  Len(monitor_thread'.file_detected) > Len(monitor_thread.file_detected)
    => /\ monitor_thread.at = "msleep"
       /\ monitor_thread.size1 # Absent
       /\ folder.size[monitor_thread.file] = monitor_thread.size1
       /\ monitor_thread'.file_detected =
            Append(monitor_thread.file_detected, monitor_folder \o "/" \o monitor_thread.file)
       /\ monitor_folder \o "/" \o monitor_thread.file \notin Detected

\* a second reading that differs from the first, or a reading that fails,
\* marks and emits nothing
RejectsChangedOrUnreadable ==
  /\ (/\ monitor_thread.at = "msleep"
      /\ monitor_thread'.at = "for"
      /\ folder.size[monitor_thread.file] # monitor_thread.size1)
       => /\ monitor_thread'.processed_files = monitor_thread.processed_files
          /\ monitor_thread'.file_detected = monitor_thread.file_detected
  /\ (/\ monitor_thread.at = "for"
      /\ monitor_thread'.at = "for"
      /\ monitor_thread.files # << >>)
       => /\ monitor_thread'.processed_files = monitor_thread.processed_files
          /\ monitor_thread'.file_detected = monitor_thread.file_detected

\* a .bin file that from some moment on lies in the folder with an unchanging
\* size, under a monitor that is not stopped, is marked processed in the end,
\* whatever readings of it were rejected before
StableFileDetected ==
  \A f \in BinNames : \A s \in 0..MaxSize :
    []<>(\/ ~(monitor_thread.running /\ folder.size[f] = s)
         \/ monitor_folder \o "/" \o f \in monitor_thread.processed_files)

\* C26: one FileMonitor emits file_detected at most once per path, only for
\* names ending in .bin (in any case) and only in the step in which the second
\* of two size readings of the file equals the first; a file whose size changed
\* between the readings, or could not be read, is not marked processed, and is
\* examined again on later scans until its size holds still.
MonitorDetection ==
  /\ []DetectedOnce
  /\ [][EmitsAfterEqualSizes /\ RejectsChangedOrUnreadable]_vars
  /\ StableFileDetected

\* B.BIN was emitted, and a.bin is in hand with a size that has changed since
\* the first reading
MonitorSawGrowth ==
  /\ monitor_thread.file_detected = <<"in/B.BIN">>
  /\ monitor_thread.at = "msleep"
  /\ monitor_thread.file = "a.bin"
  /\ monitor_thread.size1 = 0
  /\ folder.size["a.bin"] = 1

\* C27: save_file never replaces a file that already exists in the destination
\* folder: a name that holds a file holds the same file after every step.
SaveNeverReplaces ==
  [][\A d \in FolderPaths : \A n \in DestNames :
       tree[d].files[n] # 0 => tree'[d].files[n] = tree[d].files[n]]_vars

\* C28: when save_file ends early (make or model empty, or the duplicate
\* dialog cancelled) nothing changes: no folder is created, the source file
\* stays, no log entry is written, file_saved is not emitted, the recent files
\* are not touched and the dialog stays open; file_saved is emitted only in a
\* step that moves the source file to the emitted path.
SaveFileFrame ==
  [][/\ (dialog'.outcome \in {"warning", "cancel"} /\ dialog'.outcome # dialog.outcome)
          => /\ tree' = tree
             /\ file_saved' = file_saved
             /\ recent_files' = recent_files
             /\ dialog' = [dialog EXCEPT !.outcome = dialog'.outcome]
             /\ dialog'.open
     /\ (entry = "save_file" /\ Len(file_saved') > Len(file_saved))
          => /\ dialog.source_exists
             /\ ~dialog'.source_exists
             /\ file_saved' = Append(file_saved, file_saved'[Len(file_saved')])
             /\ tree'[dirname(file_saved'[Len(file_saved')])].files[
                  basename(file_saved'[Len(file_saved')])] = dialog.content]_vars

\* the duplicate dialog was cancelled: the dialog is open, the source is
\* there, and the tree holds the old folder and nothing else
CancelledLeftNothing ==
  /\ dialog.open
  /\ dialog.outcome = "cancel"
  /\ dialog.source_exists
  /\ file_saved = << >>
  /\ tree = [d \in FolderPaths |-> IF d = OldFolder THEN [NoFolder EXCEPT !.exists = TRUE]
                                   ELSE NoFolder]

\* how many FileMonitor threads are running
RunningThreads == orphaned + (IF isRunning(monitor_thread) THEN 1 ELSE 0)

\* C29: over any sequence of the window's operations at most one FileMonitor
\* thread is running at a time; stop_monitoring returns only after the monitor
\* loop has exited; and the loop exits once running is set to false.
OneMonitorAndStopJoins ==
  /\ [](RunningThreads <= 1)
  /\ [][(window.at = "waiting" /\ window'.at # "waiting")
          => monitor_thread.at = "finished"]_vars
  /\ (isRunning(monitor_thread) /\ ~monitor_thread.running)
       ~> (monitor_thread.at = "finished")

\* quit_application has returned from stop_monitoring: the thread that had
\* emitted a file has left its loop
QuitJoinedTheMonitor ==
  /\ window.at = "quit"
  /\ monitor_thread.at = "finished"
  /\ ~monitor_thread.running
  /\ monitor_thread.file_detected # << >>
  /\ orphaned = 0

\* C30: after every add_to_recent_files the list has at most 20 entries, its
\* first entry is the file just saved, and the entries after it are the
\* previous entries in their previous order, the oldest dropped first.
RecentFilesOrder ==
  [][Len(file_saved') = Len(file_saved) + 1
       => /\ Len(recent_files') = Min(RecentLimit, Len(recent_files) + 1)
          /\ recent_files'[1].filename = basename(file_saved'[Len(file_saved')])
          /\ recent_files'[1].folder_path = dirname(file_saved'[Len(file_saved')])
          /\ \A k \in 2..Len(recent_files') : recent_files'[k] = recent_files[k - 1]]_vars

\* two saves on a full list: the two oldest entries are gone
RecentDroppedOldest ==
  /\ entry = "add_to_recent_files"
  /\ Len(file_saved) = 2
  /\ Len(recent_files) = RecentLimit
  /\ recent_files[1].folder_path = dirname(file_saved[2])
  /\ recent_files[2].folder_path = dirname(file_saved[1])
  /\ recent_files[RecentLimit] = OldEntry(RecentLimit - 2)
=============================================================================
